---- MODULE Spec2Model ----
(***************************************************************************)
(* Topic segmentation and scoring of the chat-log analyzers.               *)
(*                                                                         *)
(* Time is counted in minutes.  A message is a record                      *)
(*   [id, ts, sender, content]                                             *)
(* where id is the position of the message object in the input list (the   *)
(* Python code handles references to the input dicts, so two messages with *)
(* equal fields are still two messages), ts is its 'timestamp' entry,      *)
(* sender a name and content a sequence of characters.                     *)
(***************************************************************************)
EXTENDS Integers, Sequences, FiniteSets, TLC

VARIABLES
    messages,         \* TopicAnalyzer.messages: the input list
    pc,               \* position of the running call
    idx,              \* number of input messages the for loop has consumed
    sessions,         \* _group_by_session_windows: sessions
    current_session,  \* _group_by_session_windows: current_session
    last_time,        \* _group_by_session_windows: last_time
    exc,              \* exception that escaped the call, "none" if none
    interval_minutes, \* group_messages_by_time: interval_minutes
    sorted_messages,  \* group_messages_by_time: sorted_messages
    groups,           \* group_messages_by_time: groups
    current_group,    \* group_messages_by_time: current_group
    clock,            \* the latest reading of datetime.now(), in minutes
    topics,           \* TopicAnalyzer.analyze: topics
    ranked_topics,    \* TopicAnalyzer.analyze: ranked_topics
    target_topics,    \* TopicAnalyzer.analyze: target_topics
    top_topics,       \* TopicAnalyzer.analyze: top_topics, the returned list
    analyzer,         \* which file's ChatlogAnalyzer is running
    chatlog_content,  \* ChatlogAnalyzer.analyze: the lines of chatlog_content
    min_messages_per_topic,  \* ChatlogAnalyzer.min_messages_per_topic
    topic_scores,     \* ChatlogAnalyzer: topic_scores, (score, group) pairs
    call,             \* ChatAnalyzer: 1 in the first call on the list, 2 in the second
    first_groups,     \* ChatAnalyzer: the groups the first call returned
    processed,        \* topic_analyzer.py, analyze_chat_data: processed_messages
    start_time,       \* topic_analyzer.py, _group_by_time: start_time
    current_topic,    \* generate_report.py, analyze_topics: current_topic
    analyzed_topics,  \* generate_report.py, analyze_topics: analyzed_topics
    chats,            \* BatchChatlogAnalyzer.run: chats
    success_count,    \* BatchChatlogAnalyzer.run: success_count
    skip_count,       \* BatchChatlogAnalyzer.run: skip_count
    output_dir,       \* BatchChatlogAnalyzer.run: the files of output_dir
    results           \* BatchChatlogAnalyzer.run: how each call of _process_chat ended

segVars == <<sessions, current_session>>
topicVars == <<topics, ranked_topics, target_topics, top_topics>>
chatVars == <<interval_minutes, sorted_messages, groups, current_group, clock>>
reportVars == <<analyzer, chatlog_content, min_messages_per_topic, topic_scores>>
rerunVars == <<call, first_groups>>
windowVars == <<processed, start_time>>
genVars == <<current_topic, analyzed_topics>>
batchVars == <<chats, success_count, skip_count, output_dir, results>>
vars == <<messages, pc, idx, last_time, exc, segVars, topicVars, chatVars,
          reportVars, rerunVars, windowVars, genVars, batchVars>>

(***************************************************************************)
(* Bounds of the model.                                                    *)
(***************************************************************************)
MaxMsgs == 3        \* longest input list that varies the timestamps only
MaxRichMsgs == 2    \* longest input list that varies the contents
MaxLongMsgs == 5    \* longest input list made of two kinds of content
MaxTick == 4        \* timestamps are 0, TickMinutes, ..., MaxTick * TickMinutes
TickMinutes == 15   \* distance of two neighbouring timestamps, in minutes

TIME_WINDOW_MINUTES == 30

(***************************************************************************)
(* Generic helpers.                                                        *)
(***************************************************************************)
Min(a, b) == IF a <= b THEN a ELSE b
Max(a, b) == IF a >= b THEN a ELSE b

Range(f) == {f[k] : k \in DOMAIN f}

\* the elements of a finite set of integers in ascending order
Ascending(S) ==
    LET below == [x \in S |-> Cardinality({y \in S : y < x})] IN
    [r \in 1..Cardinality(S) |-> CHOOSE x \in S : below[x] = r - 1]

\* concatenation of a sequence of sequences (halving keeps the recursion flat)
RECURSIVE Concat(_)
Concat(ss) ==
    IF ss = <<>> THEN <<>>
    ELSE IF Len(ss) = 1 THEN ss[1]
    ELSE LET h == Len(ss) \div 2 IN
         Concat(SubSeq(ss, 1, h)) \o Concat(SubSeq(ss, h + 1, Len(ss)))

\* sorted(seq, key=...): position of element i in the stable ascending order
SortRank(keys, i) ==
    1 + Cardinality({j \in DOMAIN keys :
                        keys[j] < keys[i] \/ (keys[j] = keys[i] /\ j < i)})

SortedByKey(seq, keys) ==
    LET rank == [i \in DOMAIN seq |-> SortRank(keys, i)] IN
    [r \in 1..Len(seq) |-> seq[CHOOSE i \in DOMAIN seq : rank[i] = r]]

\* sorted(seq, key=..., reverse=True): descending, ties in input order
SortedByKeyDesc(seq, keys) == SortedByKey(seq, [k \in DOMAIN keys |-> -keys[k]])

(***************************************************************************)
(* Timestamps.  The 'timestamp' entry of a message is                      *)
(*   kind "iso"     a string datetime.fromisoformat accepts; t is its      *)
(*                  time in minutes, aware tells whether it carries a UTC  *)
(*                  offset (t is then the UTC time),                       *)
(*   kind "empty"   the empty string,                                      *)
(*   kind "bad"     a string fromisoformat rejects,                        *)
(*   kind "garbled" the ISO string of minute t with letters for its        *)
(*                  seconds ("2025-12-10T10:30:xx"), rejected as well,     *)
(*   kind "int"     a value that is not a string,                          *)
(*   kind "missing" no 'timestamp' key in the dict.                        *)
(***************************************************************************)
NoTime == [kind |-> "None", t |-> 0, aware |-> FALSE]

IsoTs(t, aware) == [kind |-> "iso", t |-> t, aware |-> aware]
OtherTs(kind)   == [kind |-> kind, t |-> 0, aware |-> FALSE]
GarbledTs(t)    == [kind |-> "garbled", t |-> t, aware |-> FALSE]

NaiveTimestamps == {IsoTs(k * TickMinutes, FALSE) : k \in 0..MaxTick}
AwareTimestamps == {IsoTs(k * TickMinutes, TRUE) : k \in {0, MaxTick}}
UnparseableTimestamps == {OtherTs(k) : k \in {"empty", "bad", "int", "missing"}}
Timestamps == NaiveTimestamps \cup AwareTimestamps \cup UnparseableTimestamps

\* datetime.fromisoformat(msg['timestamp']): the exception it raises, or "ok"
FromIsoFormat(ts) ==
    CASE ts.kind = "missing" -> "KeyError"
      [] ts.kind = "int"     -> "TypeError"
      [] ts.kind = "empty"   -> "ValueError"
      [] ts.kind = "bad"     -> "ValueError"
      [] ts.kind = "garbled" -> "ValueError"
      [] OTHER               -> "ok"

Parseable(ts) == ts.kind = "iso"

\* datetime - datetime raises TypeError for an aware and a naive operand
CanSubtract(a, b) == a.aware = b.aware

(***************************************************************************)
(* TopicAnalyzer._group_by_session_windows                                 *)
(* (Antigravity_001/skills/batch-chatlog-analyzer/batch_chatlog_analyzer). *)
(* The loop state is [sessions, current_session, last_time, exc].          *)
(***************************************************************************)
SegInit == [sessions |-> <<>>, current_session |-> <<>>,
            last_time |-> NoTime, exc |-> "none"]

\* gap > timedelta(minutes=TIME_WINDOW_MINUTES)
GapTooLarge(current_time, last) == current_time.t - last.t > TIME_WINDOW_MINUTES

\* a slip that takes the time of the first message and forgets the message
SegStepSkippingFirst(s, msg) ==
    LET r == FromIsoFormat(msg.ts) IN
    IF r = "ValueError" THEN s
    ELSE IF r # "ok" THEN [s EXCEPT !.exc = r]
    ELSE IF s.last_time = NoTime
         THEN [s EXCEPT !.last_time = msg.ts]
    ELSE IF ~CanSubtract(msg.ts, s.last_time)
         THEN [s EXCEPT !.exc = "TypeError"]
    ELSE IF GapTooLarge(msg.ts, s.last_time)
         THEN [s EXCEPT !.sessions = Append(@, s.current_session),
                        !.current_session = <<msg>>,
                        !.last_time = msg.ts]
         ELSE [s EXCEPT !.current_session = Append(@, msg),
                        !.last_time = msg.ts]

\* one iteration of `for msg in self.messages`
SegStep(s, msg) ==
    LET r == FromIsoFormat(msg.ts) IN
    IF r = "ValueError" THEN s                      \* except ValueError: continue
    ELSE IF r # "ok" THEN [s EXCEPT !.exc = r]      \* not caught
    ELSE IF s.last_time = NoTime
         THEN [s EXCEPT !.current_session = Append(@, msg),
                        !.last_time = msg.ts]
    ELSE IF ~CanSubtract(msg.ts, s.last_time)
         THEN [s EXCEPT !.exc = "TypeError"]
    ELSE IF GapTooLarge(msg.ts, s.last_time)
         THEN [s EXCEPT !.sessions = Append(@, s.current_session),
                        !.current_session = <<msg>>,
                        !.last_time = msg.ts]
         ELSE [s EXCEPT !.current_session = Append(@, msg),
                        !.last_time = msg.ts]

\* a slip that forgets the trailing append
SegFinishNoAppend(s) == s.sessions

\* after the loop: `if current_session: sessions.append(current_session)`
SegFinish(s) ==
    IF s.current_session # <<>> THEN Append(s.sessions, s.current_session)
                                ELSE s.sessions

(***************************************************************************)
(* Text.  A string is a sequence of characters; a character is written as  *)
(* a one-letter string, or as a name: "nl" is the newline, "zh_..." are    *)
(* CJK ideographs (U+4E00..U+9FFF), "cn_..." are full-width punctuation.   *)
(***************************************************************************)
Whitespace == {" ", "nl"}
Digits == {"0", "1", "2", "3"}
LatinLetters == {"a", "b", "c", "d", "e", "f", "h", "i", "k", "l", "m", "n",
                 "o", "p", "r", "s", "t", "u", "x", "y", "O", "K"}
HanChars == {"zh_xiang", "zh_mu", "zh_guan", "zh_li", "zh_en", "zh_o",
             "zh_a", "zh_he", "zh_ha", "zh_hao", "zh_de", "zh_shou",
             "zh_dao", "zh_xie", "zh_gan", "zh_qun", "zh_liao",
             "zh_tao", "zh_lun", "zh_jiao", "zh_liu", "zh_fen", "zh_share",
             "zh_zan", "zh_wu", "zh_detail", "zh_fine", "zh_zhai", "zh_yao",
             "zh_nian", "zh_yue", "zh_ri", "zh_wan", "zh_yi4",
             "zh_yi", "zh_ge", "zh_mei", "zh_you", "zh_zi", "zh_ji",
             "zh_shen", "zh_me", "zh_zen", "zh_ke", "zh_yi3", "zh_zhe",
             "zh_na", "zh_ru", "zh_guo", "zh_yin", "zh_wei", "zh_suo",
             "zh_dan", "zh_shi", "zh_er", "zh_qie", "zh_huo", "zh_zhe3",
             "zh_hai", "zh_sui", "zh_ran", "zh_bu", "zh_guo4", "zh_yang",
             "zh_xi4", "zh_tong", "zh_xiao", "zh_xi1", "zh_tu", "zh_pian",
             "zh_wo", "zh_men", "zh_ni", "zh_ta", "zh_ta_f", "zh_ta_n",
             "zh_na3", "zh_li3", "zh_lian", "zh_jie", "zh_dong", "zh_hua",
             "zh_biao", "zh_qing", "zh_che", "zh_hui", "zh_jia", "zh_ru4",
             "zh_yao1", "zh_qing3", "zh_nei", "zh_rong", "zh_xiao4",
             "zh_hua4", "zh_ti", "zh_he2"}
WordChars == Digits \cup LatinLetters \cup HanChars \cup {"_"}   \* \w

Ellipsis == <<".", ".", ".">>

Rep(c, n) == [k \in 1..n |-> c]
Slice(str, a, b) == [k \in 1..(b - a + 1) |-> str[a + k - 1]]   \* str[a-1:b]
Prefix(str, n) == Slice(str, 1, Min(n, Len(str)))               \* str[:n]
Suffix(str, a) == Slice(str, a, Len(str))                       \* str[a-1:]
StartsWith(str, w) == Len(w) <= Len(str) /\ Prefix(str, Len(w)) = w

\* str.strip()
RECURSIVE LStrip(_)
LStrip(str) ==
    IF str # <<>> /\ Head(str) \in Whitespace THEN LStrip(Tail(str)) ELSE str
RECURSIVE RStrip(_)
RStrip(str) ==
    IF str # <<>> /\ str[Len(str)] \in Whitespace
    THEN RStrip(Prefix(str, Len(str) - 1)) ELSE str
Strip(str) == RStrip(LStrip(str))

\* " | ".join(parts)
Join(parts, sep) ==
    Concat([k \in 1..(2 * Len(parts) - 1) |->
               IF k % 2 = 1 THEN parts[(k + 1) \div 2] ELSE sep])

\* re.sub(r'\[.*?\]', '', str): every "[" up to the nearest "]" that
\* follows it on the same line is removed
ClosingBracket(str) ==
    LET stops == {k \in 2..Len(str) : str[k] \in {"]", "nl"}} IN
    IF stops = {} THEN 0
    ELSE LET k == CHOOSE x \in stops : \A y \in stops : x <= y
         IN IF str[k] = "]" THEN k ELSE 0
RECURSIVE RemoveBrackets(_)
RemoveBrackets(str) ==
    IF str = <<>> THEN <<>>
    ELSE IF Head(str) = "[" /\ ClosingBracket(str) > 0
         THEN RemoveBrackets(Suffix(str, ClosingBracket(str) + 1))
         ELSE <<Head(str)>> \o RemoveBrackets(Tail(str))

(***************************************************************************)
(* TopicAnalyzer._is_noise                                                 *)
(***************************************************************************)
AckWords == {<<"zh_en">>, <<"zh_o">>, <<"zh_a">>, <<"zh_he", "zh_he">>,
             <<"zh_ha", "zh_ha">>, <<"zh_hao", "zh_de">>, <<"o", "k">>,
             <<"O", "K">>, <<"zh_shou", "zh_dao">>, <<"zh_xie", "zh_xie">>,
             <<"zh_gan", "zh_xie">>}

RECURSIVE IsAckSequence(_)
IsAckSequence(str) ==
    \E w \in AckWords :
        /\ StartsWith(str, w)
        /\ (Len(str) = Len(w) \/ IsAckSequence(Suffix(str, Len(w) + 1)))

AllIn(str, S) == str # <<>> /\ \A k \in DOMAIN str : str[k] \in S

IsNoise(content) ==
    LET c == Strip(content) IN
    \/ /\ Len(c) >= 2                       \* ^\[.*\]$
       /\ c[1] = "[" /\ c[Len(c)] = "]"
       /\ \A k \in 2..(Len(c) - 1) : c[k] # "nl"
    \/ /\ Len(c) >= 2 /\ c[1] = "@"         \* ^@\w+\s*$
       /\ AllIn(Tail(c), WordChars)
    \/ AllIn(c, {"?", "!", "cn_qmark", "cn_excl"})   \* ^[？?!！]+$
    \/ AllIn(c, Digits)                      \* ^\d+$
    \/ IsAckSequence(c)                      \* ^(嗯|哦|...|感谢)+$

(***************************************************************************)
(* TopicAnalyzer._generate_title and _extract_title_from_content           *)
(***************************************************************************)
\* "群聊讨论"
DefaultTitle == <<"zh_qun", "zh_liao", "zh_tao", "zh_lun">>

SentenceEnds == {"cn_period", "cn_excl", "cn_qmark", "nl", "cn_comma",
                 "cn_semi", "cn_colon"}                 \* [。！？\n，；：]
CutMarks == {" ", "cn_comma", "cn_period", "cn_excl", "cn_qmark", "cn_dun"}

\* length of the longest run of characters of S that starts at position i
RECURSIVE RunFrom(_, _, _)
RunFrom(str, i, S) ==
    IF i <= Len(str) /\ str[i] \in S THEN 1 + RunFrom(str, i + 1, S) ELSE 0

RunLength(str, S) == RunFrom(str, 1, S)

\* the positions where a maximal run of characters of S starts
RunStarts(str, S) ==
    {i \in DOMAIN str : str[i] \in S /\ (i = 1 \/ str[i - 1] \notin S)}

\* re.sub(r'@\w+', '', str)
RECURSIVE RemoveMentions(_)
RemoveMentions(str) ==
    IF str = <<>> THEN <<>>
    ELSE IF Head(str) = "@" /\ RunLength(Tail(str), WordChars) > 0
         THEN RemoveMentions(Suffix(str, RunLength(Tail(str), WordChars) + 2))
         ELSE <<Head(str)>> \o RemoveMentions(Tail(str))

\* re.split(r'[...]', str)
RECURSIVE Split(_, _)
Split(str, seps) ==
    LET n == RunLength(str, Range(str) \ seps) IN
    IF n = Len(str) THEN <<str>>
    ELSE <<Prefix(str, n)>> \o Split(Suffix(str, n + 2), seps)

\* a slip that returns the cleaned content whatever its length
ExtractTitleWithoutTruncation(raw) ==
    LET content == Strip(RemoveMentions(RemoveBrackets(raw)))
        sentences == Split(content, SentenceEnds)
        fits == {k \in DOMAIN sentences :
                    8 <= Len(Strip(sentences[k])) /\ Len(Strip(sentences[k])) <= 40}
    IN  IF fits # {}
        THEN Strip(sentences[CHOOSE k \in fits : \A j \in fits : k <= j])
        ELSE IF content # <<>> THEN content ELSE DefaultTitle

ExtractTitleFromContent(raw) ==
    LET content == Strip(RemoveMentions(RemoveBrackets(raw)))
        sentences == Split(content, SentenceEnds)
        fits == {k \in DOMAIN sentences :
                    8 <= Len(Strip(sentences[k])) /\ Len(Strip(sentences[k])) <= 40}
        truncated == Prefix(content, 40)
        \* range(len(truncated) - 1, max(20, len(truncated) - 10), -1)
        cuts == {i \in (Max(20, Len(truncated) - 10) + 1)..(Len(truncated) - 1) :
                    truncated[i + 1] \in CutMarks}
    IN  IF fits # {}
        THEN Strip(sentences[CHOOSE k \in fits : \A j \in fits : k <= j])
        ELSE IF Len(content) > 40
        THEN IF cuts # {}
             THEN Strip(Prefix(truncated, CHOOSE i \in cuts : \A j \in cuts : i >= j))
                      \o Ellipsis
             ELSE truncated \o Ellipsis
        ELSE IF content # <<>> THEN content ELSE DefaultTitle

\* a slip that leaves out `break`: the last of the first three substantial
\* messages is taken when it is long enough
TitleSourceWithoutBreak(msgs) ==
    LET substantial_msgs ==
            SelectSeq(msgs, LAMBDA m : Len(Strip(m.content)) > 15
                                        /\ ~IsNoise(Strip(m.content)))
        fallback == SelectSeq(msgs, LAMBDA m : Len(Strip(m.content)) > 5)
        n == Len(substantial_msgs)
        better == {i \in 1..Min(3, n) :
                      10 * Len(Strip(substantial_msgs[i].content))
                          > 7 * Len(Strip(substantial_msgs[1].content))}
    IN  IF n = 0
        THEN IF fallback = <<>> THEN 0 ELSE fallback[1].id
        ELSE substantial_msgs[CHOOSE i \in better : \A j \in better : i >= j].id

\* the message the title is extracted from: id 0 if there is none
TitleSource(msgs) ==
    LET substantial_msgs ==
            SelectSeq(msgs, LAMBDA m : Len(Strip(m.content)) > 15
                                        /\ ~IsNoise(Strip(m.content)))
        fallback == SelectSeq(msgs, LAMBDA m : Len(Strip(m.content)) > 5)
        n == Len(substantial_msgs)
        \* positions i < 3 among the first 5 with len(msg) > len(best_msg) * 0.7
        better == {i \in 1..Min(5, n) :
                      /\ 10 * Len(Strip(substantial_msgs[i].content))
                            > 7 * Len(Strip(substantial_msgs[1].content))
                      /\ i - 1 < 3}
    IN  IF n = 0
        THEN IF fallback = <<>> THEN 0 ELSE fallback[1].id
        ELSE IF better = {} THEN substantial_msgs[1].id
             ELSE substantial_msgs[CHOOSE i \in better : \A j \in better : i <= j].id

GenerateTitle(msgs) ==
    LET src == TitleSource(msgs) IN
    IF src = 0 THEN DefaultTitle
    ELSE LET m == CHOOSE x \in Range(msgs) : x.id = src
         IN ExtractTitleFromContent(Strip(m.content))

(***************************************************************************)
(* TopicAnalyzer._extract_keywords                                         *)
(***************************************************************************)
\* the stop words of two or more characters (a match of the keyword
\* patterns is never a single character): 一个 没有 自己 什么 怎么 可以
\* 这个 那个 如果 因为 所以 但是 而且 或者 还是 虽然 不过 这样 那样
\* 这么 那么 什么样 怎么样
StopWords == {<<"zh_yi", "zh_ge">>, <<"zh_mei", "zh_you">>,
              <<"zh_zi", "zh_ji">>, <<"zh_shen", "zh_me">>,
              <<"zh_zen", "zh_me">>, <<"zh_ke", "zh_yi3">>,
              <<"zh_zhe", "zh_ge">>, <<"zh_na", "zh_ge">>,
              <<"zh_ru", "zh_guo">>, <<"zh_yin", "zh_wei">>,
              <<"zh_suo", "zh_yi3">>, <<"zh_dan", "zh_shi">>,
              <<"zh_er", "zh_qie">>, <<"zh_huo", "zh_zhe3">>,
              <<"zh_hai", "zh_shi">>, <<"zh_sui", "zh_ran">>,
              <<"zh_bu", "zh_guo4">>, <<"zh_zhe", "zh_yang">>,
              <<"zh_na", "zh_yang">>, <<"zh_zhe", "zh_me">>,
              <<"zh_na", "zh_me">>, <<"zh_shen", "zh_me", "zh_yang">>,
              <<"zh_zen", "zh_me", "zh_yang">>}
EnglishStopWords == {<<"t", "h", "e">>, <<"a", "n", "d">>, <<"f", "o", "r">>,
                     <<"a", "r", "e">>, <<"b", "u", "t">>, <<"n", "o", "t">>,
                     <<"y", "o", "u">>, <<"a", "l", "l">>}
UnitChars == {"zh_nian", "zh_yue", "zh_ri", "zh_wan", "zh_yi4", "%"}
\* ["讨论", "交流", "分享"]
FallbackKeywords == << <<"zh_tao", "zh_lun">>, <<"zh_jiao", "zh_liu">>,
                       <<"zh_fen", "zh_share">> >>

LowerChar(c) == IF c = "O" THEN "o" ELSE IF c = "K" THEN "k" ELSE c
Lower(str) == [k \in DOMAIN str |-> LowerChar(str[k])]

\* re.findall(r'[\u4e00-\u9fff]{2,6}', str): every run of ideographs is cut
\* into pieces of 6, a last piece of one character is no match
FindChinese(str) ==
    LET starts == RunStarts(str, HanChars)
        run == [i \in starts |-> RunFrom(str, i, HanChars)]
        pieces == UNION {{i + 6 * j : j \in 0..((run[i] - 2) \div 6)} : i \in starts}
        first == [p \in pieces |->
                     CHOOSE i \in starts : i <= p /\ p < i + run[i]]
        order == Ascending(pieces)
    IN  [k \in DOMAIN order |->
            Slice(str, order[k],
                  order[k] + Min(6, first[order[k]] + run[first[order[k]]] - order[k]) - 1)]

\* re.findall(r'[a-zA-Z]{3,}', str)
FindEnglish(str) ==
    LET run == [i \in RunStarts(str, LatinLetters) |-> RunFrom(str, i, LatinLetters)]
        order == Ascending({i \in DOMAIN run : run[i] >= 3})
    IN  [k \in DOMAIN order |-> Slice(str, order[k], order[k] + run[order[k]] - 1)]

\* re.findall(r'\d+[年月日万亿%]+', str)
FindNumbers(str) ==
    LET starts == RunStarts(str, Digits)
        d == [i \in starts |-> RunFrom(str, i, Digits)]
        u == [i \in starts |-> RunFrom(str, i + d[i], UnitChars)]
        order == Ascending({i \in starts : u[i] > 0})
    IN  [k \in DOMAIN order |->
            Slice(str, order[k], order[k] + d[order[k]] + u[order[k]] - 1)]

\* `word in existing`
IsSubstring(w, str) ==
    \E a \in 1..(Len(str) - Len(w) + 1) : Slice(str, a, a + Len(w) - 1) = w

\* the occurrences counted into keywords_candidates, in counting order
KeywordOccurrences(msgs) ==
    LET all_text == Join([k \in DOMAIN msgs |-> msgs[k].content], <<" ">>)
    IN  SelectSeq(FindChinese(all_text), LAMBDA w : w \notin StopWords /\ Len(w) >= 2)
        \o SelectSeq(FindEnglish(all_text), LAMBDA w : Lower(w) \notin EnglishStopWords)
        \o FindNumbers(all_text)

\* the keys of keywords_candidates, in insertion order
Distinct(seq) ==
    LET order == Ascending({k \in DOMAIN seq : \A j \in 1..(k - 1) : seq[j] # seq[k]})
    IN  [k \in DOMAIN order |-> seq[order[k]]]

Frequency(occurrences, w) ==
    Cardinality({k \in DOMAIN occurrences : occurrences[k] = w})

\* min(len(word) / 4, 1.5) * min(freq / 3, 2.0), times 120.  The product of
\* the two floats is the exact value except that 0.5 * (5/3) and
\* 1.0 * (5/3) come out one unit in the last place above 1.25 * (2/3) and
\* 1.25 * (4/3): the last term keeps that order.
KeywordScore(len, freq) ==
    10 * Min(len, 6) * Min(freq, 6)
        + (IF Min(freq, 6) = 5 /\ len \in {2, 4} THEN 1 ELSE 0)

\* a slip that drops the test of is_duplicate
RECURSIVE DeduplicateKeepingAll(_, _)
DeduplicateKeepingAll(scored, keywords) ==
    IF scored = <<>> \/ Len(keywords) >= 5 THEN keywords
    ELSE DeduplicateKeepingAll(Tail(scored), Append(keywords, Head(scored)))

\* the loop over `scored`: keep a word unless it contains or is contained
\* in a word kept before, stop at 5
RECURSIVE Deduplicate(_, _)
Deduplicate(scored, keywords) ==
    IF scored = <<>> \/ Len(keywords) >= 5 THEN keywords
    ELSE LET word == Head(scored)
             is_duplicate ==
                 \E k \in DOMAIN keywords :
                     IsSubstring(word, keywords[k]) \/ IsSubstring(keywords[k], word)
         IN Deduplicate(Tail(scored),
                        IF is_duplicate THEN keywords ELSE Append(keywords, word))

\* a slip that drops `if freq >= 2`
ScoredKeywordsOfAnyFrequency(msgs) ==
    LET occurrences == KeywordOccurrences(msgs)
        candidates == Distinct(occurrences)
    IN  SortedByKeyDesc(candidates,
            [k \in DOMAIN candidates |->
                KeywordScore(Len(candidates[k]),
                             Frequency(occurrences, candidates[k]))])

\* the list `scored`, sorted
ScoredKeywords(msgs) ==
    LET occurrences == KeywordOccurrences(msgs)
        candidates == Distinct(occurrences)
        qualifying == SelectSeq(candidates,
                                LAMBDA w : Frequency(occurrences, w) >= 2)
    IN  SortedByKeyDesc(qualifying,
            [k \in DOMAIN qualifying |->
                KeywordScore(Len(qualifying[k]),
                             Frequency(occurrences, qualifying[k]))])

ExtractKeywords(msgs) ==
    LET keywords == Deduplicate(ScoredKeywords(msgs), <<>>) IN
    IF keywords # <<>> THEN keywords ELSE FallbackKeywords

(***************************************************************************)
(* TopicAnalyzer._generate_summary                                         *)
(***************************************************************************)
Separator == <<" ", "|", " ">>
\* "暂无详细摘要"
NoSummary == <<"zh_zan", "zh_wu", "zh_detail", "zh_fine", "zh_zhai", "zh_yao">>

\* a slip that forgets the noise filter
IsSubstantialAnyText(msg) == Len(Strip(msg.content)) > 10

\* the list `substantial`: the stripped content of every message that is
\* longer than 10 characters and not noise; id names the message
IsSubstantial(msg) == Len(Strip(msg.content)) > 10 /\ ~IsNoise(Strip(msg.content))

Substantial(msgs) ==
    LET keep == SelectSeq(msgs, IsSubstantial) IN
    [k \in DOMAIN keep |->
        [content |-> Strip(keep[k].content), sender |-> keep[k].sender,
         length |-> Len(Strip(keep[k].content)), id |-> keep[k].id]]

\* the positions (from 1) of the items picked out of n > 3 substantial ones
SummaryIndices(substantial) ==
    LET n == Len(substantial)
        base == <<1, (n \div 2) + 1, n>>
        sorted_by_length ==
            SortedByKeyDesc([k \in 1..n |-> k],
                            [k \in 1..n |-> substantial[k].length])
        add1 == IF sorted_by_length[1] \in Range(base)
                THEN base ELSE Append(base, sorted_by_length[1])
        add2 == IF sorted_by_length[2] \in Range(add1)
                THEN add1 ELSE Append(add1, sorted_by_length[2])
        distinct == Range(add2)
        ascending == SortedByKey([k \in 1..n |-> k],
                                 [k \in 1..n |-> IF k \in distinct THEN 0 ELSE 1])
    IN  Prefix(ascending, Min(4, Cardinality(distinct)))

Selected(substantial) ==
    IF Len(substantial) <= 3 THEN substantial
    ELSE LET indices == SummaryIndices(substantial)
         IN [k \in DOMAIN indices |-> substantial[indices[k]]]

\* the excerpt of one selected item: brackets removed, at most 60 characters
SummaryPart(content) ==
    LET c == Strip(RemoveBrackets(content)) IN
    IF Len(c) > 60 THEN Prefix(c, 60) \o Ellipsis ELSE c

\* summary is the returned string; from lists the ids of the messages its
\* parts were cut from, in the order of the parts
GenerateSummary(msgs) ==
    LET selected == Selected(Substantial(msgs))
        used == SelectSeq(selected, LAMBDA item : SummaryPart(item.content) # <<>>)
        summary_parts == [k \in DOMAIN used |-> SummaryPart(used[k].content)]
    IN  [summary |-> IF summary_parts = <<>> THEN NoSummary
                     ELSE Join(summary_parts, Separator),
         from |-> [k \in DOMAIN used |-> used[k].id]]

(***************************************************************************)
(* TopicAnalyzer._extract_topic.  score is 100 times the Python score, an  *)
(* exact integer (the Python float can differ from it in the last place).  *)
(* timestamp is the "%H:%M" start time as minutes of the day, -1 for       *)
(* "Unknown".  session, title_from and summary_from are not fields of the  *)
(* Python dict: they record the session the topic was made from and the    *)
(* ids of the messages its title and summary excerpts were cut from.       *)
(***************************************************************************)
TotalLength(msgs) ==
    Len(Concat([k \in DOMAIN msgs |-> msgs[k].content]))

Participants(msgs) == {msgs[k].sender : k \in DOMAIN msgs}

\* ((msg_count * 0.4) + (total_length * 0.1) + (participant_count * 5.0))
\*     * diversity_bonus
TopicScore(msg_count, total_length, participant_count) ==
    (4 * msg_count + total_length + 50 * participant_count)
        * (IF participant_count > 2 THEN 15 ELSE 10)

StartTime(ts) == IF Parseable(ts) THEN ts.t % 1440 ELSE -1

ExtractTopic(msgs, g) ==
    LET s == GenerateSummary(msgs) IN
    [title |-> GenerateTitle(msgs),
     summary |-> s.summary,
     keywords |-> ExtractKeywords(msgs),
     timestamp |-> StartTime(msgs[1].ts),
     message_count |-> Len(msgs),
     participant_count |-> Cardinality(Participants(msgs)),
     score |-> TopicScore(Len(msgs), TotalLength(msgs),
                          Cardinality(Participants(msgs))),
     session |-> g,
     title_from |-> TitleSource(msgs),
     summary_from |-> s.from]

\* topics: one per session (`if topic` holds for every non-empty dict, and
\* _extract_topic returns None for an empty session only)
ExtractTopics(ss) ==
    LET kept == Ascending({g \in DOMAIN ss : ss[g] # <<>>}) IN
    [k \in DOMAIN kept |-> ExtractTopic(ss[kept[k]], kept[k])]

\* a slip that forgets reverse=True
RankTopicsAscending(ts) == SortedByKey(ts, [k \in DOMAIN ts |-> ts[k].score])

\* sorted(topics, key=lambda t: t['score'], reverse=True)
RankTopics(ts) == SortedByKeyDesc(ts, [k \in DOMAIN ts |-> ts[k].score])

\* a slip in the divisor
TargetTopicsPer60(total_messages) == Max(5, Min(20, total_messages \div 60))

\* max(5, min(20, total_messages // 50))
TargetTopics(total_messages) == Max(5, Min(20, total_messages \div 50))

(***************************************************************************)
(* Specification Spec: one call of TopicAnalyzer.analyze, the loop of      *)
(* _group_by_session_windows iteration by iteration.  The input lists are  *)
(*   - every list of at most MaxMsgs messages of one sender and content    *)
(*     with any timestamps,                                                *)
(*   - every list of at most MaxRichMsgs messages with any content of      *)
(*     Contents, the senders taking turns,                                 *)
(*   - every list of at most MaxLongMsgs messages, each a quarter of an    *)
(*     hour or three after the one before, short or long,                  *)
(*   - lists of BulkSizes messages in sessions of BulkSessionSize.         *)
(***************************************************************************)
PlainContent == <<"a", "b", "c">>

MkMessages(tss) ==
    [i \in 1..Len(tss) |->
        [id |-> i, ts |-> tss[i], sender |-> "u1", content |-> PlainContent]]

SeqsUpTo(S, n) == UNION {[1..k -> S] : k \in 0..n}

Senders == {"u1", "u2", "u3"}

Smile == <<"[", "s", "m", "i", "l", "e", "]">>
Hello == <<"h", "e", "l", "l", "o", " ", "a", "l", "l", " ", "o", "k">>
Project == <<"zh_xiang", "zh_mu", "zh_guan", "zh_li", " ",
             "zh_xiang", "zh_mu", "zh_guan", "zh_li", " ",
             "zh_tao", "zh_lun", "zh_xiang", "zh_mu", "cn_comma",
             "p", "l", "a", "n", " ", "p", "l", "a", "n">>
Contents ==
    { <<>>,                                   \* no content
      <<" ", " ", " ">>,                      \* blank
      Smile,                                  \* noise: one emoji
      <<"o", "k">>,                           \* noise: acknowledgement
      <<"1", "2", "3">>,                      \* noise: digits
      <<"[", "a", "]">> \o Hello \o <<"[", "b", "]">>,   \* noise: ^\[.*\]$
      <<"h", "i">>,                           \* short
      Hello,                                  \* 12 characters
      Project,                                \* 24 characters
      Rep("b", 61),                           \* longer than an excerpt
      <<"x">> \o <<"[">> \o Rep("a", 12) \o <<"]">>,      \* excerpt "x"
      <<"[", "a", "b", "c", "d", "e", "]", "nl",
        "[", "f", "h", "i", "k", "l", "]">> } \* empty excerpt, not noise

RichTimestamps == {IsoTs(0, FALSE), IsoTs(3 * TickMinutes, FALSE)}

RichInputs ==
    {[i \in DOMAIN f |-> [id |-> i, ts |-> f[i][1],
                          sender |-> <<"u1", "u2">>[(i % 2) + 1],
                          content |-> f[i][2]]] :
        f \in SeqsUpTo(RichTimestamps \X Contents, MaxRichMsgs)}

\* message i is gaps[i] quarters of an hour after message i - 1
RECURSIVE TimeAt(_, _)
TimeAt(gaps, i) ==
    IF i = 0 THEN 0 ELSE TimeAt(gaps, i - 1) + gaps[i] * TickMinutes

LongInputs ==
    {[i \in DOMAIN f |->
        [id |-> i, ts |-> IsoTs(TimeAt([k \in DOMAIN f |-> f[k][1]], i), FALSE),
         sender |-> <<"u1", "u2", "u3">>[(i % 3) + 1],
         content |-> f[i][2]]] :
        f \in SeqsUpTo({1, 3} \X {Smile, Project}, MaxLongMsgs)}

\* contents whose keyword candidates contain one another: "项目管理，项目",
\* "项目，好项目", and six words none of which contains another
Managing == <<"zh_xiang", "zh_mu", "zh_guan", "zh_li", "cn_comma", "zh_xiang", "zh_mu">>
GoodProject == <<"zh_xiang", "zh_mu", "cn_comma", "zh_hao", "zh_xiang", "zh_mu">>
SixWords == <<"p", "l", "a", "n", " ", "t", "e", "a", "m", " ", "c", "o", "d", "e", " ",
              "s", "h", "i", "p", " ", "t", "e", "s", "t", " ", "b", "u", "i", "l", "d">>
MaxKeywordMsgs == 4

\* the first message is a session of its own, every later message is a
\* quarter of an hour after the one before
KeywordInputs ==
    {[i \in DOMAIN f |->
        [id |-> i, ts |-> IsoTs((IF i = 1 THEN 0 ELSE i + 1) * TickMinutes, FALSE),
         sender |-> "u1", content |-> f[i]]] :
        f \in SeqsUpTo({Managing, GoodProject, SixWords}, MaxKeywordMsgs)}

MaxSummaryMsgs == 5

\* one session of substantial messages of two lengths, 12 and 24 characters
SummaryInputs ==
    {[i \in DOMAIN f |->
        [id |-> i, ts |-> IsoTs(0, FALSE), sender |-> "u1", content |-> f[i]]] :
        f \in SeqsUpTo({Hello, Project}, MaxSummaryMsgs)}

\* one message for each way a title is cut: 35 letters, a space and 10
\* more (cut at the space), a clause of 9 characters before a comma, six
\* letters, and brackets only around a long text
TitleContents ==
    { Rep("a", 35) \o <<" ">> \o Rep("b", 10),
      Rep("c", 9) \o <<"cn_comma">> \o Rep("d", 45),
      <<"a", "b", "c", "d", "e", "f">>,
      <<"x", "[">> \o Rep("a", 20) \o <<"]">> }

TitleInputs ==
    {<<[id |-> 1, ts |-> IsoTs(0, FALSE), sender |-> "u1", content |-> c]>> :
        c \in TitleContents}

BulkSessionSize == 10
BulkSizes == {299, 300, 600, 1000, 1050}

\* n messages, BulkSessionSize to a session, the sessions of unlike scores
BulkInput(n) ==
    [i \in 1..n |->
        LET g == (i - 1) \div BulkSessionSize IN
        [id |-> i,
         ts |-> IsoTs(g * 3 * TickMinutes, FALSE),
         sender |-> IF g % 4 = 3 THEN <<"u1", "u2", "u3">>[(i % 3) + 1] ELSE "u1",
         content |-> IF i % (2 + (g % 5)) = 0 THEN Hello ELSE Smile]]

Inputs ==
    {MkMessages(tss) : tss \in SeqsUpTo(Timestamps, MaxMsgs)}
        \cup RichInputs \cup LongInputs \cup KeywordInputs \cup SummaryInputs
        \cup TitleInputs
        \cup {BulkInput(n) : n \in BulkSizes}

Init ==
    /\ messages \in Inputs
    /\ pc = "start"
    /\ idx = 0
    /\ sessions = <<>>
    /\ current_session = <<>>
    /\ last_time = NoTime
    /\ exc = "none"
    /\ topics = <<>>
    /\ ranked_topics = <<>>
    /\ target_topics = 0
    /\ top_topics = <<>>
    /\ interval_minutes = 0
    /\ sorted_messages = <<>>
    /\ groups = <<>>
    /\ current_group = <<>>
    /\ clock = 0
    /\ analyzer = "none"
    /\ chatlog_content = <<>>
    /\ min_messages_per_topic = 0
    /\ topic_scores = <<>>
    /\ call = 1
    /\ first_groups = <<>>
    /\ processed = <<>>
    /\ start_time = NoTime
    /\ current_topic = <<>>
    /\ analyzed_topics = <<>>
    /\ chats = <<>>
    /\ success_count = 0
    /\ skip_count = 0
    /\ output_dir = {}
    /\ results = <<>>

\* _group_by_session_windows: `if not self.messages: return []`
SegEmpty ==
    /\ pc = "start"
    /\ messages = <<>>
    /\ pc' = "grouped"
    /\ UNCHANGED <<messages, idx, last_time, exc, segVars, topicVars, chatVars, reportVars, rerunVars, windowVars, genVars, batchVars>>

SegEnter ==
    /\ pc = "start"
    /\ messages # <<>>
    /\ pc' = "loop"
    /\ UNCHANGED <<messages, idx, last_time, exc, segVars, topicVars, chatVars, reportVars, rerunVars, windowVars, genVars, batchVars>>

SegLoop ==
    /\ pc = "loop"
    /\ idx < Len(messages)
    /\ LET s == SegStep([sessions |-> sessions,
                         current_session |-> current_session,
                         last_time |-> last_time, exc |-> exc],
                        messages[idx + 1])
       IN /\ sessions' = s.sessions
          /\ current_session' = s.current_session
          /\ last_time' = s.last_time
          /\ exc' = s.exc
          /\ pc' = IF s.exc = "none" THEN "loop" ELSE "raised"
    /\ idx' = idx + 1
    /\ UNCHANGED <<messages, topicVars, chatVars, reportVars, rerunVars, windowVars, genVars, batchVars>>

SegReturn ==
    /\ pc = "loop"
    /\ idx = Len(messages)
    /\ sessions' = SegFinish([sessions |-> sessions,
                              current_session |-> current_session,
                              last_time |-> last_time, exc |-> exc])
    /\ pc' = "grouped"
    /\ UNCHANGED <<messages, idx, current_session, last_time, exc,
                   topicVars, chatVars, reportVars, rerunVars, windowVars, genVars, batchVars>>

\* analyze: the loop `for session_messages in sessions`
AnalyzeExtract ==
    /\ pc = "grouped"
    /\ topics' = ExtractTopics(sessions)
    /\ pc' = "extracted"
    /\ UNCHANGED <<messages, idx, last_time, exc, segVars, ranked_topics,
                   target_topics, top_topics, chatVars, reportVars, rerunVars, windowVars, genVars, batchVars>>

\* analyze: rank, derive the target and return the top topics
AnalyzeRank ==
    /\ pc = "extracted"
    /\ ranked_topics' = RankTopics(topics)
    /\ target_topics' = TargetTopics(Len(messages))
    /\ top_topics' = Prefix(RankTopics(topics), TargetTopics(Len(messages)))
    /\ pc' = "done"
    /\ UNCHANGED <<messages, idx, last_time, exc, segVars, topics, chatVars, reportVars, rerunVars, windowVars, genVars, batchVars>>

Next == SegEmpty \/ SegEnter \/ SegLoop \/ SegReturn \/ AnalyzeExtract
            \/ AnalyzeRank

Spec == Init /\ [][Next]_vars

(***************************************************************************)
(* ChatAnalyzer (wechatBatch/skills/chatlog_analyzer/analyzer.py).         *)
(***************************************************************************)
MaxChatMsgs == 3    \* longest input list of the ChatAnalyzer specification

ClockTimes == {k * TickMinutes : k \in 0..MaxTick}
Intervals == {30, 15, 0, -15}

\* _get_message_time: the time of the first usable time field, else
\* datetime.now() (a naive datetime), passed here as the reading `now`
GetMessageTime(message, now) ==
    IF Parseable(message.ts) THEN message.ts ELSE IsoTs(now, FALSE)

\* the readings of datetime.now() never go back: nows[i] is the reading
\* taken for the i-th message if that message needs one
ClockReadings(msgs, start, nows) ==
    \A i \in DOMAIN msgs :
        LET before == IF i = 1 THEN start ELSE nows[i - 1] IN
        IF Parseable(msgs[i].ts) THEN nows[i] = before ELSE nows[i] >= before

\* comparing an aware with a naive datetime raises TypeError
Comparable(times) ==
    \A i, j \in DOMAIN times : times[i].aware = times[j].aware

ChatLoopInit == [groups |-> <<>>, current_group |-> <<>>,
                 last_time |-> NoTime, exc |-> "none"]

\* one iteration of `for msg in sorted_messages`
ChatStep(s, msg, msg_time, interval) ==
    IF s.last_time = NoTime
    THEN [s EXCEPT !.current_group = <<msg>>, !.last_time = msg_time]
    ELSE IF ~CanSubtract(msg_time, s.last_time)
    THEN [s EXCEPT !.exc = "TypeError"]
    ELSE IF msg_time.t - s.last_time.t <= interval
    THEN [s EXCEPT !.current_group = Append(@, msg)]
    ELSE [s EXCEPT !.groups = IF s.current_group # <<>>
                               THEN Append(@, s.current_group) ELSE @,
                   !.current_group = <<msg>>,
                   !.last_time = msg_time]

ChatFinish(s) ==
    IF s.current_group # <<>> THEN Append(s.groups, s.current_group)
                              ELSE s.groups

InitChat ==
    /\ messages \in {MkMessages(tss) :
            tss \in SeqsUpTo(NaiveTimestamps \cup AwareTimestamps
                                \cup {OtherTs("bad"), OtherTs("missing")},
                             MaxChatMsgs)}
    /\ interval_minutes \in Intervals
    /\ clock \in {0, MaxTick * TickMinutes}
    /\ pc = "start"
    /\ idx = 0
    /\ last_time = NoTime
    /\ exc = "none"
    /\ sorted_messages = <<>>
    /\ groups = <<>>
    /\ current_group = <<>>
    /\ sessions = <<>>
    /\ current_session = <<>>
    /\ topics = <<>>
    /\ ranked_topics = <<>>
    /\ target_topics = 0
    /\ top_topics = <<>>
    /\ analyzer = "none"
    /\ chatlog_content = <<>>
    /\ min_messages_per_topic = 0
    /\ topic_scores = <<>>
    /\ call = 1
    /\ first_groups = <<>>
    /\ processed = <<>>
    /\ start_time = NoTime
    /\ current_topic = <<>>
    /\ analyzed_topics = <<>>
    /\ chats = <<>>
    /\ success_count = 0
    /\ skip_count = 0
    /\ output_dir = {}
    /\ results = <<>>

\* `if not messages: return []`
ChatEmpty ==
    /\ pc = "start"
    /\ messages = <<>>
    /\ pc' = "done"
    /\ UNCHANGED <<messages, idx, last_time, exc, segVars, topicVars, chatVars, reportVars, rerunVars, windowVars, genVars, batchVars>>

\* sorted(messages, key=lambda m: self._get_message_time(m))
ChatSort ==
    /\ pc = "start"
    /\ messages # <<>>
    /\ \E nows \in [DOMAIN messages -> ClockTimes] :
          /\ ClockReadings(messages, clock, nows)
          /\ LET times == [i \in DOMAIN messages |->
                              GetMessageTime(messages[i], nows[i])]
                 keys == [i \in DOMAIN messages |-> times[i].t]
             IN IF Comparable(times)
                THEN /\ sorted_messages' = SortedByKey(messages, keys)
                     /\ pc' = "loop"
                     /\ exc' = exc
                ELSE /\ sorted_messages' = sorted_messages
                     /\ pc' = "raised"
                     /\ exc' = "TypeError"
          /\ clock' = nows[Len(messages)]
    /\ UNCHANGED <<messages, idx, last_time, interval_minutes, groups,
                   current_group, segVars, topicVars, reportVars, rerunVars, windowVars, genVars, batchVars>>

ChatLoop ==
    /\ pc = "loop"
    /\ idx < Len(sorted_messages)
    /\ LET msg == sorted_messages[idx + 1] IN
       \E now \in ClockTimes :
          /\ ClockReadings(<<msg>>, clock, <<now>>)
          /\ LET s == ChatStep([groups |-> groups,
                                current_group |-> current_group,
                                last_time |-> last_time, exc |-> exc],
                               msg, GetMessageTime(msg, now), interval_minutes)
             IN /\ groups' = s.groups
                /\ current_group' = s.current_group
                /\ last_time' = s.last_time
                /\ exc' = s.exc
                /\ pc' = IF s.exc = "none" THEN "loop" ELSE "raised"
          /\ clock' = now
    /\ idx' = idx + 1
    /\ UNCHANGED <<messages, interval_minutes, sorted_messages, segVars, topicVars, reportVars, rerunVars, windowVars, genVars, batchVars>>

ChatReturn ==
    /\ pc = "loop"
    /\ idx = Len(sorted_messages)
    /\ groups' = ChatFinish([groups |-> groups,
                             current_group |-> current_group,
                             last_time |-> last_time, exc |-> exc])
    /\ pc' = "done"
    /\ UNCHANGED <<messages, idx, last_time, exc, interval_minutes,
                   sorted_messages, current_group, clock, segVars, topicVars, reportVars, rerunVars, windowVars, genVars, batchVars>>

\* the caller calls group_messages_by_time a second time on the same list
ChatRerun ==
    /\ pc = "done"
    /\ call = 1
    /\ first_groups' = groups
    /\ call' = 2
    /\ pc' = "start"
    /\ idx' = 0
    /\ last_time' = NoTime
    /\ sorted_messages' = <<>>
    /\ groups' = <<>>
    /\ current_group' = <<>>
    /\ UNCHANGED <<messages, exc, interval_minutes, clock, segVars, topicVars,
                   reportVars, windowVars, genVars, batchVars>>

NextChat == ChatEmpty \/ ChatSort \/ ChatLoop \/ ChatReturn \/ ChatRerun

SpecChat == InitChat /\ [][NextChat]_vars

(***************************************************************************)
(* ChatlogAnalyzer (wechatReport/real_chatlog_analyzer.py and              *)
(* wechatReport/analyze_yirengongsi.py).  The two classes share their      *)
(* grouping and scoring code and differ in min_messages_per_topic, in the  *)
(* stop words, in the length of a summary excerpt and in where the         *)
(* messages come from: the first asks the chat-log service, the second     *)
(* parses a text.                                                          *)
(***************************************************************************)
Analyzers == {"real_chatlog_analyzer", "analyze_yirengongsi"}

MaxReportMsgs == 4  \* longest answer of the chat-log service
MaxLines == 4       \* longest chat-log text, in lines

time_window == 30

\* self.min_messages_per_topic of __init__
MinMessagesPerTopic(a) == IF a = "real_chatlog_analyzer" THEN 3 ELSE 2

\* '系统消息', the sender parse_chatlog gives to a system notice
SystemSender == "system"
\* a line that starts with 系统消息
SystemLine == <<"zh_xi4", "zh_tong", "zh_xiao", "zh_xi1", " ", "u", "p">>

(***************************************************************************)
(* parse_chatlog.  A line of the text is a record [kind, ts, name, text]:  *)
(* kind says which branch of the loop the stripped line takes,             *)
(*   "time"    it is HH:MM:SS,                                             *)
(*   "sender"  it ends in (id) HH:MM:SS and has a name before the id,      *)
(*   "anon"    it ends in (id) HH:MM:SS and has no name: nothing happens,  *)
(*   "system"  it starts with 系统消息,                                    *)
(*   "text"    any other line that is not blank,                           *)
(* ts is the timestamp f"2025-12-10T{HH:MM:SS}" the line gives (a          *)
(* HH:MM:SS such as 25:00:00 gives a string fromisoformat rejects), name   *)
(* the sender's name and text the stripped line.  Blank lines are skipped  *)
(* by the code and left out here.                                          *)
(***************************************************************************)
EmptyMsg == [timestamp |-> OtherTs("empty"), sender |-> "", content |-> <<>>]

\* `if current_msg['sender'] or current_msg['content']`
Pending(current_msg) == current_msg.sender # "" \/ current_msg.content # <<>>

Flush(s) ==
    IF Pending(s.current_msg) THEN Append(s.messages, s.current_msg)
                              ELSE s.messages

\* one iteration of `for line in lines`
ParseLine(s, line) ==
    CASE line.kind = "time" ->
            [messages |-> Flush(s),
             current_msg |-> [EmptyMsg EXCEPT !.timestamp = line.ts]]
      [] line.kind = "sender" ->
            [s EXCEPT !.current_msg.sender = line.name,
                      !.current_msg.timestamp = line.ts]
      [] line.kind = "anon" -> s
      [] line.kind = "system" ->
            [messages |->
                Append(Flush(s),
                       [timestamp |->
                            IF s.current_msg.timestamp # OtherTs("empty")
                            THEN s.current_msg.timestamp ELSE IsoTs(0, FALSE),
                        sender |-> SystemSender,
                        content |-> line.text]),
             current_msg |-> EmptyMsg]
      [] OTHER ->
            [s EXCEPT !.current_msg.content =
                IF @ # <<>> THEN @ \o <<"nl">> \o line.text ELSE line.text]

RECURSIVE ParseLines(_, _)
ParseLines(s, lines) ==
    IF lines = <<>> THEN s
    ELSE ParseLines(ParseLine(s, Head(lines)), Tail(lines))

\* parse_chatlog(content); the model numbers the messages it returns
ParseChatlog(lines) ==
    LET s == ParseLines([messages |-> <<>>, current_msg |-> EmptyMsg], lines)
        kept == SelectSeq(Flush(s), LAMBDA m : Strip(m.content) # <<>>)
    IN  [i \in DOMAIN kept |->
            [id |-> i, ts |-> kept[i].timestamp, sender |-> kept[i].sender,
             content |-> kept[i].content]]

(***************************************************************************)
(* group_messages_by_time of ChatlogAnalyzer.                              *)
(***************************************************************************)
\* x.get('timestamp', ''): the strings in their order.  '' is the least
\* string, an ISO string with an offset follows the same string without
\* it, a string with letters for its seconds follows both, and the other
\* strings of the model start with a letter or with an hour no clock
\* shows, so they follow every ISO string of the day.
BadKey == 3 * 1440
TimestampKey(ts) ==
    CASE ts.kind \in {"empty", "missing"} -> -1
      [] ts.kind = "iso" -> 3 * ts.t + (IF ts.aware THEN 1 ELSE 0)
      [] ts.kind = "garbled" -> 3 * ts.t + 2
      [] ts.kind = "bad" -> BadKey
      [] OTHER -> 0                                    \* an integer

\* sorted() raises TypeError when it compares an integer with a string
Sortable(msgs) ==
    \A i, j \in DOMAIN msgs : (msgs[i].ts.kind = "int") = (msgs[j].ts.kind = "int")

\* the try block computes time_diff without raising
TimeDiffDefined(last, msg) ==
    Parseable(last.ts) /\ Parseable(msg.ts) /\ CanSubtract(msg.ts, last.ts)

ReportLoopInit == [groups |-> <<>>, current_group |-> <<>>]

\* one iteration of `for msg in sorted_messages`
ReportStep(s, msg) ==
    IF s.current_group = <<>>
    THEN [s EXCEPT !.current_group = <<msg>>]
    ELSE LET last == s.current_group[Len(s.current_group)] IN
         IF ~TimeDiffDefined(last, msg)
         THEN [s EXCEPT !.current_group = Append(@, msg)]       \* except:
         ELSE IF msg.ts.t - last.ts.t <= time_window
         THEN [s EXCEPT !.current_group = Append(@, msg)]
         ELSE [groups |-> Append(s.groups, s.current_group),
               current_group |-> <<msg>>]

ReportFinish(s) ==
    IF s.current_group # <<>> THEN Append(s.groups, s.current_group)
                              ELSE s.groups

(***************************************************************************)
(* extract_keywords, calculate_topic_value and generate_topic_summary of   *)
(* ChatlogAnalyzer.                                                        *)
(***************************************************************************)
\* the stop words of two characters and more (a match of \w{2,} is never a
\* single character): 我们 你们 他们 她们 它们 这个 那个 什么 怎么 为什么
\* 哪里
CommonStopWords ==
    {<<"zh_wo", "zh_men">>, <<"zh_ni", "zh_men">>, <<"zh_ta", "zh_men">>,
     <<"zh_ta_f", "zh_men">>, <<"zh_ta_n", "zh_men">>,
     <<"zh_zhe", "zh_ge">>, <<"zh_na", "zh_ge">>, <<"zh_shen", "zh_me">>,
     <<"zh_zen", "zh_me">>, <<"zh_wei", "zh_shen", "zh_me">>,
     <<"zh_na3", "zh_li3">>}
\* analyze_yirengongsi.py adds 图片 链接 动画 表情 系统消息 撤回 加入 邀请
\* 群聊
ChatStopWords ==
    {<<"zh_tu", "zh_pian">>, <<"zh_lian", "zh_jie">>, <<"zh_dong", "zh_hua">>,
     <<"zh_biao", "zh_qing">>, <<"zh_xi4", "zh_tong", "zh_xiao", "zh_xi1">>,
     <<"zh_che", "zh_hui">>, <<"zh_jia", "zh_ru4">>, <<"zh_yao1", "zh_qing3">>,
     <<"zh_qun", "zh_liao">>}
ReportStopWords(a) ==
    IF a = "real_chatlog_analyzer" THEN CommonStopWords
    ELSE CommonStopWords \cup ChatStopWords

\* re.findall(r'\b\w{2,}\b', str): the maximal runs of word characters
\* that are two characters long at least
FindWords(str) ==
    LET run == [i \in RunStarts(str, WordChars) |-> RunFrom(str, i, WordChars)]
        order == Ascending({i \in DOMAIN run : run[i] >= 2})
    IN  [k \in DOMAIN order |-> Slice(str, order[k], order[k] + run[order[k]] - 1)]

\* counter.most_common(10): by count, equal counts in order of first
\* occurrence
ReportKeywords(a, msgs) ==
    LET all_text == Join([k \in DOMAIN msgs |-> msgs[k].content], <<" ">>)
        keywords == SelectSeq(FindWords(Lower(all_text)),
                        LAMBDA w : w \notin ReportStopWords(a) /\ Len(w) >= 2)
        words == Distinct(keywords)
    IN  Prefix(SortedByKeyDesc(words,
                   [k \in DOMAIN words |-> Frequency(keywords, words[k])]), 10)

\* set(msg.get('sender', '') for msg in ... if msg.get('sender'))
ReportParticipants(msgs) == {msgs[k].sender : k \in DOMAIN msgs} \ {""}

\* calculate_topic_value as the exact fraction num / den:
\*   (msg_count / 10) * 40 + min(avg_length / 100, 1) * 30
\*     + min(participant_count / 5, 1) * 20 + min(len(keywords) / 10, 1) * 10
\* with den = 10 * msg_count.  The code adds floats, which can differ from
\* the fraction in the last place.
CalculateTopicValue(a, topic_messages) ==
    IF topic_messages = <<>> THEN [num |-> 0, den |-> 1]
    ELSE LET msg_count == Len(topic_messages)
             total_chars == TotalLength(topic_messages)
             participant_count == Cardinality(ReportParticipants(topic_messages))
             keywords == ReportKeywords(a, topic_messages)
         IN  [num |-> 40 * msg_count * msg_count
                        + Min(3 * total_chars, 300 * msg_count)
                        + 40 * msg_count * Min(participant_count, 5)
                        + 10 * msg_count * Min(Len(keywords), 10),
              den |-> 10 * msg_count]

\* round(n / d, 2) counted in hundredths.  When the fraction lies half way
\* between two hundredths, the float the code rounds lies a little above
\* or a little below it, and `up` says which.
HalfWay(n, d) == 2 * ((100 * n) % d) = d

RoundHundredths(n, d, up) ==
    LET q == (100 * n) \div d
        r == (100 * n) % d
    IN  IF 2 * r < d THEN q
        ELSE IF 2 * r > d THEN q + 1
        ELSE IF up THEN q + 1 ELSE q

\* "无内容" and "无有效内容"
NoContent == <<"zh_wu", "zh_nei", "zh_rong">>
NoValidContent == <<"zh_wu", "zh_you", "zh_xiao4", "zh_nei", "zh_rong">>

\* content[:50] of real_chatlog_analyzer.py, content[:80] of the other
ExcerptLength(a) == IF a = "real_chatlog_analyzer" THEN 50 ELSE 80

GenerateTopicSummary(a, topic_messages) ==
    IF topic_messages = <<>> THEN NoContent
    ELSE LET first == Prefix(topic_messages, 3)
             nonblank == SelectSeq(first, LAMBDA m : Strip(m.content) # <<>>)
             summary_parts ==
                [k \in DOMAIN nonblank |->
                    LET content == Strip(nonblank[k].content) IN
                    Prefix(content, ExcerptLength(a))
                        \o (IF Len(content) > ExcerptLength(a)
                            THEN Ellipsis ELSE <<>>)]
         IN  IF summary_parts # <<>> THEN Join(summary_parts, Separator)
             ELSE NoValidContent

(***************************************************************************)
(* analyze_group_chat and analyze from the grouping on.                    *)
(***************************************************************************)
\* a slip that scores every group, whatever its size
ScoredGroupsOfAnySize(a, time_groups, minimum) ==
    [k \in DOMAIN time_groups |->
        [score |-> CalculateTopicValue(a, time_groups[k]),
         group |-> time_groups[k]]]

\* topic_scores before the sort: the loop `for group in time_groups` with
\* `if len(group) >= self.min_messages_per_topic`
ScoredGroups(a, time_groups, minimum) ==
    LET kept == SelectSeq(time_groups, LAMBDA g : Len(g) >= minimum) IN
    [k \in DOMAIN kept |->
        [score |-> CalculateTopicValue(a, kept[k]), group |-> kept[k]]]

RECURSIVE Product(_)
Product(ns) == IF ns = <<>> THEN 1 ELSE Head(ns) * Product(Tail(ns))

\* topic_scores.sort(key=lambda x: x[0], reverse=True): the fractions are
\* compared over their common denominator
SortScores(scored) ==
    LET common == Product([k \in DOMAIN scored |-> scored[k].score.den]) IN
    SortedByKeyDesc(scored,
        [k \in DOMAIN scored |->
            scored[k].score.num * (common \div scored[k].score.den)])

\* group[0].get('timestamp', '')
TimestampOrEmpty(msg) ==
    IF msg.ts.kind = "missing" THEN OtherTs("empty") ELSE msg.ts

\* the topic dicts of `for i, (score, group) in enumerate(top_topics, 1)`;
\* ups[i] is the side the float of topic i lies on, see RoundHundredths
BuildTopics(a, top, ups) ==
    [i \in DOMAIN top |->
        LET group == top[i].group IN
        [rank |-> i,
         score |-> RoundHundredths(top[i].score.num, top[i].score.den, ups[i]),
         message_count |-> Len(group),
         participant_count |-> Cardinality(ReportParticipants(group)),
         keywords |-> ReportKeywords(a, group),
         summary |-> GenerateTopicSummary(a, group),
         start_time |-> TimestampOrEmpty(group[1]),
         end_time |-> TimestampOrEmpty(group[Len(group)]),
         messages |-> group]]

(***************************************************************************)
(* Specification SpecReport: one call of analyze_group_chat, on an answer  *)
(* of the chat-log service, or one call of analyze, on a text.             *)
(***************************************************************************)
ReportTimestamps ==
    {IsoTs(0, FALSE), IsoTs(2 * TickMinutes, FALSE), IsoTs(5 * TickMinutes, FALSE),
     IsoTs(TickMinutes, TRUE), GarbledTs(TickMinutes)}
        \cup {OtherTs(k) : k \in {"empty", "bad", "int", "missing"}}

\* the answers of the service: any timestamps, the senders and the texts
\* taking turns; the timestamps that carry a UTC offset carry the same one
ReportAnswers ==
    {[i \in DOMAIN tss |->
        [id |-> i, ts |-> tss[i],
         sender |-> <<"u1", "u2", "">>[(i % 3) + 1],
         content |-> IF i % 2 = 1 THEN Hello ELSE Project]] :
        tss \in SeqsUpTo(ReportTimestamps, MaxReportMsgs)}

MaxBulkAnswer == 26  \* messages of the longest one-group answer or text

\* answers of n messages of one minute, two senders taking turns
BulkAnswer(n) ==
    [i \in 1..n |->
        [id |-> i, ts |-> IsoTs(0, FALSE), sender |-> <<"u1", "u2">>[(i % 2) + 1],
         content |-> Hello]]
BulkAnswerSizes == {11, MaxBulkAnswer}

Line(kind, ts, name, text) ==
    [kind |-> kind, ts |-> ts, name |-> name, text |-> text]

Lines ==
    {Line("time", IsoTs(6 * TickMinutes, FALSE), "", <<>>),
     Line("sender", IsoTs(0, FALSE), "u1", <<>>),
     Line("sender", IsoTs(3 * TickMinutes, FALSE), "u2", <<>>),
     Line("sender", OtherTs("bad"), "u1", <<>>),
     Line("anon", IsoTs(0, FALSE), "", <<>>),
     Line("system", NoTime, "", SystemLine),
     Line("text", NoTime, "", Hello)}

\* texts of n messages of one minute: a sender line and a line of text each
BulkText(n) ==
    [i \in 1..(2 * n) |->
        IF i % 2 = 1 THEN Line("sender", IsoTs(0, FALSE), "u1", <<>>)
        ELSE Line("text", NoTime, "", Hello)]

InitReport ==
    /\ analyzer \in Analyzers
    /\ min_messages_per_topic = MinMessagesPerTopic(analyzer)
    /\ chatlog_content \in IF analyzer = "analyze_yirengongsi"
                           THEN SeqsUpTo(Lines, MaxLines)
                                   \cup {BulkText(n) : n \in BulkAnswerSizes}
                           ELSE {<<>>}
    /\ messages = <<>>
    /\ pc = "start"
    /\ idx = 0
    /\ exc = "none"
    /\ sorted_messages = <<>>
    /\ groups = <<>>
    /\ current_group = <<>>
    /\ topic_scores = <<>>
    /\ call = 1
    /\ first_groups = <<>>
    /\ processed = <<>>
    /\ start_time = NoTime
    /\ current_topic = <<>>
    /\ analyzed_topics = <<>>
    /\ chats = <<>>
    /\ success_count = 0
    /\ skip_count = 0
    /\ output_dir = {}
    /\ results = <<>>
    /\ top_topics = <<>>
    /\ topics = <<>>
    /\ sessions = <<>>
    /\ current_session = <<>>
    /\ last_time = NoTime
    /\ ranked_topics = <<>>
    /\ target_topics = 0
    /\ interval_minutes = 0
    /\ clock = 0

unusedByReport == <<last_time, exc, segVars, ranked_topics, target_topics,
                    interval_minutes, clock, rerunVars, windowVars, genVars, batchVars>>

\* messages = self.mcp_client.get_chatlog(group_name, date_str)
ReportFetch ==
    /\ pc = "start"
    /\ analyzer = "real_chatlog_analyzer"
    /\ messages' \in ReportAnswers \cup {BulkAnswer(n) : n \in BulkAnswerSizes}
    /\ pc' = "fetched"
    /\ UNCHANGED <<idx, sorted_messages, groups, current_group, topics,
                   top_topics, reportVars, unusedByReport>>

\* messages = self.parse_chatlog(chatlog_content)
ReportParse ==
    /\ pc = "start"
    /\ analyzer = "analyze_yirengongsi"
    /\ messages' = ParseChatlog(chatlog_content)
    /\ pc' = "fetched"
    /\ UNCHANGED <<idx, sorted_messages, groups, current_group, topics,
                   top_topics, reportVars, unusedByReport>>

\* `if not messages: return {..., 'topics': []}`
ReportEmpty ==
    /\ pc = "fetched"
    /\ messages = <<>>
    /\ topics' = <<>>
    /\ pc' = "done"
    /\ UNCHANGED <<messages, idx, sorted_messages, groups, current_group,
                   top_topics, reportVars, unusedByReport>>

\* sorted(messages, key=lambda x: x.get('timestamp', '')); its TypeError
\* is caught by `except Exception`, which returns {..., 'topics': []}
ReportSort ==
    /\ pc = "fetched"
    /\ messages # <<>>
    /\ IF Sortable(messages)
       THEN /\ sorted_messages' =
                  SortedByKey(messages, [i \in DOMAIN messages |->
                                            TimestampKey(messages[i].ts)])
            /\ pc' = "loop"
            /\ topics' = topics
       ELSE /\ sorted_messages' = sorted_messages
            /\ pc' = "done"
            /\ topics' = <<>>
    /\ UNCHANGED <<messages, idx, groups, current_group, top_topics,
                   reportVars, unusedByReport>>

ReportLoop ==
    /\ pc = "loop"
    /\ idx < Len(sorted_messages)
    /\ LET s == ReportStep([groups |-> groups, current_group |-> current_group],
                           sorted_messages[idx + 1])
       IN /\ groups' = s.groups
          /\ current_group' = s.current_group
    /\ idx' = idx + 1
    /\ UNCHANGED <<messages, pc, sorted_messages, topics, top_topics,
                   reportVars, unusedByReport>>

\* group_messages_by_time returns time_groups
ReportReturn ==
    /\ pc = "loop"
    /\ idx = Len(sorted_messages)
    /\ groups' = ReportFinish([groups |-> groups,
                               current_group |-> current_group])
    /\ pc' = "grouped"
    /\ UNCHANGED <<messages, idx, sorted_messages, current_group, topics,
                   top_topics, reportVars, unusedByReport>>

\* the loop `for group in time_groups` and topic_scores.sort(...)
ReportScore ==
    /\ pc = "grouped"
    /\ topic_scores' = SortScores(ScoredGroups(analyzer, groups,
                                               min_messages_per_topic))
    /\ pc' = "scored"
    /\ UNCHANGED <<messages, idx, sorted_messages, groups, current_group,
                   topics, top_topics, analyzer, chatlog_content,
                   min_messages_per_topic, unusedByReport>>

\* top_topics = topic_scores[:3], the topic dicts and the return
ReportTopics ==
    /\ pc = "scored"
    /\ top_topics' = Prefix(topic_scores, 3)
    /\ \E ups \in [1..3 -> BOOLEAN] :
          /\ \A i \in 1..3 :
                ups[i] => /\ i <= Len(topic_scores)
                          /\ HalfWay(topic_scores[i].score.num,
                                     topic_scores[i].score.den)
          /\ topics' = BuildTopics(analyzer, Prefix(topic_scores, 3), ups)
    /\ pc' = "done"
    /\ UNCHANGED <<messages, idx, sorted_messages, groups, current_group,
                   reportVars, unusedByReport>>

NextReport == ReportFetch \/ ReportParse \/ ReportEmpty \/ ReportSort
                  \/ ReportLoop \/ ReportReturn \/ ReportScore
                  \/ ReportTopics

SpecReport == InitReport /\ [][NextReport]_vars

(***************************************************************************)
(* TopicAnalyzer of wechatBatch/chatlog_analyzer/topic_analyzer.py:        *)
(* analyze_chat_data up to the return of _extract_topics.  A timestamp of  *)
(* kind "text" is a string one of the four strptime formats accepts        *)
(* ("2025-12-12 10:00:00"), kind "epoch" is a number; the ISO form with a   *)
(* "T" is accepted by none of the formats.  groups is the dict of          *)
(* _group_by_time as the sequence of its items in insertion order.         *)
(***************************************************************************)
MaxWindowMsgs == 3
TIME_WINDOW == 30

TextTs(t) == [kind |-> "text", t |-> t, aware |-> FALSE]
EpochTs(t) == [kind |-> "epoch", t |-> t, aware |-> FALSE]

\* `if not content or not timestamp: continue`, then the parsing of the
\* timestamp: TRUE when the message is appended to `processed`
Preprocessable(msg) ==
    /\ msg.content # <<>>
    /\ \/ msg.ts.kind = "text"
       \/ msg.ts.kind = "epoch" /\ msg.ts.t # 0

\* _preprocess_messages: the kept messages with their datetime, sorted
PreprocessMessages(msgs) ==
    LET kept == SelectSeq(msgs, Preprocessable)
        entries == [k \in DOMAIN kept |->
                       [timestamp |-> kept[k].ts.t, user |-> kept[k].sender,
                        content |-> kept[k].content, original |-> kept[k].id]]
    IN  SortedByKey(entries, [k \in DOMAIN entries |-> entries[k].timestamp])

\* Variant of WindowTime: the nearest window start instead of the one before.
WindowTimeNearest(timestamp, start) ==
    start + ((timestamp - start + TIME_WINDOW \div 2) \div TIME_WINDOW) * TIME_WINDOW

\* int(time_diff.total_seconds() // (self.time_window * 60)) and the start
\* of that window
WindowTime(timestamp, start) ==
    start + ((timestamp - start) \div TIME_WINDOW) * TIME_WINDOW

\* groups[window_time].append(msg)
GroupAppend(dict, window_time, msg) ==
    IF \E k \in DOMAIN dict : dict[k].window_time = window_time
    THEN [k \in DOMAIN dict |->
             IF dict[k].window_time = window_time
             THEN [dict[k] EXCEPT !.messages = Append(@, msg)]
             ELSE dict[k]]
    ELSE Append(dict, [window_time |-> window_time, messages |-> <<msg>>])

\* stop_words of _extract_keywords: 一个 没有 自己 我们 他们 她们 它们 这个 那个
\* 这里 那里; its one-character entries never matter, `len(w) >= 2` is
\* asked first
TopicStopWords ==
    {<<"zh_yi", "zh_ge">>, <<"zh_mei", "zh_you">>, <<"zh_zi", "zh_ji">>,
     <<"zh_wo", "zh_men">>, <<"zh_ta", "zh_men">>, <<"zh_ta_f", "zh_men">>,
     <<"zh_ta_n", "zh_men">>, <<"zh_zhe", "zh_ge">>, <<"zh_na", "zh_ge">>,
     <<"zh_zhe", "zh_li3">>, <<"zh_na", "zh_li3">>}

\* _extract_keywords: punctuation becomes a space, the text is lowered and
\* split at white space, so the words are the maximal runs of \w; then
\* Counter(words).most_common(5)
ExtractWindowKeywords(msgs) ==
    LET text == Join([k \in DOMAIN msgs |-> msgs[k].content], <<" ">>)
        words == SelectSeq(FindWords(Lower(text)),
                           LAMBDA w : w \notin TopicStopWords)
        distinct == Distinct(words)
    IN  Prefix(SortedByKeyDesc(distinct,
                   [k \in DOMAIN distinct |-> Frequency(words, distinct[k])]), 5)

\* the text of msg['user']
UserText(user) ==
    LET digits == [u1 |-> <<"1">>, u2 |-> <<"2">>, u3 |-> <<"3">>,
                   u10 |-> <<"1", "0">>, u11 |-> <<"1", "1">>,
                   u12 |-> <<"1", "2">>, u13 |-> <<"1", "3">>,
                   u20 |-> <<"2", "0">>, u21 |-> <<"2", "1">>,
                   u22 |-> <<"2", "2">>]
    IN  <<"u">> \o digits[user]

\* question_indicators: ? ？ 怎么 如何 为什么 什么 (how, why and what need a letter
\* the alphabet of the model has not)
QuestionIndicators ==
    {<<"?">>, <<"cn_qmark">>, <<"zh_zen", "zh_me">>, <<"zh_ru", "zh_he2">>,
     <<"zh_wei", "zh_shen", "zh_me">>, <<"zh_shen", "zh_me">>}

TopicPrefix == <<"zh_hua4", "zh_ti", ":", " ">>         \* "话题: "
DiscussPrefix == <<"zh_tao", "zh_lun", ":", " ">>       \* "讨论: "

\* _generate_title(keywords, messages) of topic_analyzer.py
GenerateWindowTitle(keywords, msgs) ==
    IF keywords = <<>>
    THEN TopicPrefix \o Prefix(msgs[1].content, 30) \o Ellipsis
    ELSE LET title == Join(Prefix(keywords, 3), <<" ", "middot", " ">>)
             content_text ==
                 Lower(Join([k \in DOMAIN msgs |-> msgs[k].content], <<" ">>))
         IN  IF \E indicator \in QuestionIndicators :
                    IsSubstring(indicator, content_text)
             THEN DiscussPrefix \o title
             ELSE TopicPrefix \o title

\* _generate_summary of topic_analyzer.py
GenerateWindowSummary(msgs) ==
    LET n == Len(msgs)
        key_messages == IF n > 6 THEN Prefix(msgs, 3) \o Suffix(msgs, n - 2)
                        ELSE msgs
        part(msg) ==
            UserText(msg.user) \o <<":", " ">>
               \o (IF Len(msg.content) > 100
                   THEN Prefix(msg.content, 100) \o Ellipsis ELSE msg.content)
    IN  Join([k \in DOMAIN key_messages |-> part(key_messages[k])],
             <<" ", "|", " ">>)

\* KEYWORD_WEIGHTS.get(kw, 1.0), times 10, for the entries the alphabet can
\* spell: help issue solution important feature update release plan decision
KeywordWeight(kw) ==
    LET KEYWORD_WEIGHTS ==
            {<<<<"h", "e", "l", "p">>, 20>>,
             <<<<"i", "s", "s", "u", "e">>, 25>>,
             <<<<"s", "o", "l", "u", "t", "i", "o", "n">>, 20>>,
             <<<<"i", "m", "p", "o", "r", "t", "a", "n", "t">>, 18>>,
             <<<<"f", "e", "a", "t", "u", "r", "e">>, 20>>,
             <<<<"u", "p", "d", "a", "t", "e">>, 15>>,
             <<<<"r", "e", "l", "e", "a", "s", "e">>, 18>>,
             <<<<"p", "l", "a", "n">>, 17>>,
             <<<<"d", "e", "c", "i", "s", "i", "o", "n">>, 23>>}
    IN  IF \E e \in KEYWORD_WEIGHTS : e[1] = kw
        THEN (CHOOSE e \in KEYWORD_WEIGHTS : e[1] = kw)[2]
        ELSE 10

RECURSIVE SumOf(_)
SumOf(seq) == IF seq = <<>> THEN 0 ELSE Head(seq) + SumOf(Tail(seq))

\* the five addends of _calculate_topic_score, each times 500:
\*   min(msg_count / 10, 3), min(participant_count / 5, 2),
\*   min(total_length / 500, 2), min(keyword_score / 5, 2) and, with two
\*   users or more, min(conversations / 10, 1)
ScoreTerms(msgs, keywords, participants) ==
    LET msg_count == Len(msgs)
        participant_count == Cardinality(participants)
        total_length == SumOf([k \in DOMAIN msgs |-> Len(msgs[k].content)])
        keyword_score == SumOf([k \in DOMAIN keywords |-> KeywordWeight(keywords[k])])
        unique_users == {msgs[k].user : k \in DOMAIN msgs}
        conversations ==
            Cardinality({k \in DOMAIN msgs :
                            k = 1 \/ msgs[k].user # msgs[k - 1].user})
    IN  <<Min(50 * msg_count, 1500),
          Min(100 * participant_count, 1000),
          Min(total_length, 1000),
          Min(10 * keyword_score, 1000),
          IF Cardinality(unique_users) >= 2
          THEN Min(50 * conversations, 500) ELSE 0>>

\* Variant of CalculateTopicScore: the addends without their caps.
CalculateTopicScoreUncapped(msgs, keywords, participants) ==
    LET users == Cardinality({msgs[k].user : k \in DOMAIN msgs}) IN
    50 * Len(msgs) + 100 * Cardinality(participants)
       + SumOf([k \in DOMAIN msgs |-> Len(msgs[k].content)])
       + 10 * SumOf([k \in DOMAIN keywords |-> KeywordWeight(keywords[k])])
       + (IF users >= 2
          THEN 50 * Cardinality({k \in DOMAIN msgs :
                                    k = 1 \/ msgs[k].user # msgs[k - 1].user})
          ELSE 0)

\* _calculate_topic_score, times 500: `return min(score, 10)`.  The code
\* adds floats; two scores that differ as fractions differ by 1/500 at
\* least, so the floats are in the same order.
CalculateTopicScore(msgs, keywords, participants) ==
    Min(SumOf(ScoreTerms(msgs, keywords, participants)), 5000)

\* _analyze_window.  participants is list(set(...)), a list in no fixed
\* order, kept as the set; messages are the ids of msg['original'].  terms
\* is no entry of the dict: it keeps the addends of the score.
AnalyzeWindow(window_time, msgs) ==
    LET keywords == ExtractWindowKeywords(msgs)
        participants == {msgs[k].user : k \in DOMAIN msgs}
    IN  [title |-> GenerateWindowTitle(keywords, msgs),
         summary |-> GenerateWindowSummary(msgs),
         keywords |-> keywords,
         start_time |-> window_time,
         end_time |-> window_time + TIME_WINDOW,
         message_count |-> Len(msgs),
         participant_count |-> Cardinality(participants),
         participants |-> participants,
         score |-> CalculateTopicScore(msgs, keywords, participants),
         terms |-> ScoreTerms(msgs, keywords, participants),
         messages |-> [k \in DOMAIN msgs |-> msgs[k].original]]

\* Variant of WindowCandidates: windows of any size are analysed.
WindowCandidatesOfAnySize(dict) ==
    [k \in DOMAIN dict |-> AnalyzeWindow(dict[k].window_time, dict[k].messages)]

\* the loop of _extract_topics: `if len(window_messages) < 3: continue`
WindowCandidates(dict) ==
    LET kept == SelectSeq(dict, LAMBDA g : Len(g.messages) >= 3) IN
    [k \in DOMAIN kept |-> AnalyzeWindow(kept[k].window_time, kept[k].messages)]

\* topics.sort(key=lambda x: x['score'], reverse=True): the orders the sort
\* can leave the candidates in.  Two scores that are the same fraction are
\* the same float when their addends are the same, and the sort keeps such
\* topics in their order; when the addends differ the float sums may differ
\* in the last place, either order is possible then.
SortOrders(candidates) ==
    LET n == Len(candidates)
        terms == [k \in 1..n |-> candidates[k].terms]
    IN  {o \in [1..n -> 1..n] :
            /\ \A i, j \in 1..n : i # j => o[i] # o[j]
            /\ \A i, j \in 1..n :
                  i < j =>
                     \/ candidates[o[i]].score > candidates[o[j]].score
                     \/ /\ candidates[o[i]].score = candidates[o[j]].score
                        /\ terms[o[i]] # terms[o[j]] \/ o[i] < o[j]}

WindowMessages ==
    {[id |-> 1, ts |-> ts, sender |-> "u1", content |-> PlainContent] :
        ts \in {TextTs(k * TickMinutes) : k \in 0..MaxTick}
                  \cup {EpochTs(0), EpochTs(3 * TickMinutes),
                        OtherTs("bad"), OtherTs("missing"), IsoTs(0, FALSE)}}
        \cup {[id |-> 1, ts |-> TextTs(0), sender |-> "u2", content |-> <<>>]}

MaxWindows == 5      \* windows of a list made of whole windows
MaxBigWindow == 31   \* messages of the list that is one crowded window

IssuePlan == <<"i", "s", "s", "u", "e", " ", "p", "l", "a", "n", "?">>
FiveKeywords ==
    <<"i", "s", "s", "u", "e", " ", "d", "e", "c", "i", "s", "i", "o", "n", " ",
      "h", "e", "l", "p", " ", "s", "o", "l", "u", "t", "i", "o", "n", " ",
      "f", "e", "a", "t", "u", "r", "e">>

\* lists made of whole windows, the latest window first: window g holds 2,
\* 3 or 4 messages five minutes apart, written by one, two or three users
WindowedInputs ==
    {Concat([g \in DOMAIN sz |->
               [j \in 1..sz[g] |->
                   [id |-> 1,
                    ts |-> TextTs((Len(sz) - g) * TIME_WINDOW + (j - 1) * 5),
                    sender |-> <<"u1", "u2", "u3">>[1 + ((j - 1) % (1 + (g % 3)))],
                    content |-> <<Project, Hello, IssuePlan>>[1 + (g % 3)]]]]) :
        sz \in [1..MaxWindows -> {2, 3, 4}]}

\* one window of MaxBigWindow messages that ten users write in turn
BigWindow ==
    [j \in 1..MaxBigWindow |->
        [id |-> 1, ts |-> TextTs((j - 1) % TIME_WINDOW),
         sender |-> <<"u1", "u2", "u3", "u10", "u11", "u12", "u13", "u20",
                      "u21", "u22">>[1 + ((j - 1) % 10)],
         content |-> FiveKeywords]]

InitWindow ==
    /\ \E f \in SeqsUpTo(WindowMessages, MaxWindowMsgs) \cup WindowedInputs
                  \cup {BigWindow} :
          messages = [i \in DOMAIN f |-> [f[i] EXCEPT !.id = i]]
    /\ pc = "start"
    /\ idx = 0
    /\ sessions = <<>>
    /\ current_session = <<>>
    /\ last_time = NoTime
    /\ exc = "none"
    /\ topics = <<>>
    /\ ranked_topics = <<>>
    /\ target_topics = 0
    /\ top_topics = <<>>
    /\ interval_minutes = 0
    /\ sorted_messages = <<>>
    /\ groups = <<>>
    /\ current_group = <<>>
    /\ clock = 0
    /\ analyzer = "none"
    /\ chatlog_content = <<>>
    /\ min_messages_per_topic = 0
    /\ topic_scores = <<>>
    /\ call = 1
    /\ first_groups = <<>>
    /\ processed = <<>>
    /\ start_time = NoTime
    /\ current_topic = <<>>
    /\ analyzed_topics = <<>>
    /\ chats = <<>>
    /\ success_count = 0
    /\ skip_count = 0
    /\ output_dir = {}
    /\ results = <<>>

unusedByWindow == <<last_time, exc, segVars, ranked_topics, target_topics,
                    top_topics, interval_minutes, sorted_messages,
                    current_group, clock, reportVars, rerunVars, genVars,
                    batchVars>>

\* analyze_chat_data: `if not messages: return {...}`
WindowEmpty ==
    /\ pc = "start"
    /\ messages = <<>>
    /\ pc' = "done"
    /\ UNCHANGED <<messages, idx, groups, topics, windowVars, unusedByWindow>>

\* processed_messages = self._preprocess_messages(messages)
WindowPreprocess ==
    /\ pc = "start"
    /\ messages # <<>>
    /\ processed' = PreprocessMessages(messages)
    /\ pc' = "preprocessed"
    /\ UNCHANGED <<messages, idx, groups, topics, start_time, unusedByWindow>>

\* _group_by_time: `if not messages: return groups`
WindowGroupEmpty ==
    /\ pc = "preprocessed"
    /\ processed = <<>>
    /\ pc' = "grouped"
    /\ UNCHANGED <<messages, idx, groups, topics, windowVars, unusedByWindow>>

\* start_time = messages[0]['timestamp']
WindowGroupEnter ==
    /\ pc = "preprocessed"
    /\ processed # <<>>
    /\ start_time' = processed[1].timestamp
    /\ pc' = "loop"
    /\ UNCHANGED <<messages, idx, groups, topics, processed, unusedByWindow>>

\* one iteration of `for msg in messages`
WindowGroupLoop ==
    /\ pc = "loop"
    /\ idx < Len(processed)
    /\ LET msg == processed[idx + 1] IN
       groups' = GroupAppend(groups, WindowTime(msg.timestamp, start_time), msg)
    /\ idx' = idx + 1
    /\ UNCHANGED <<messages, pc, topics, windowVars, unusedByWindow>>

\* `return groups`
WindowGroupReturn ==
    /\ pc = "loop"
    /\ idx = Len(processed)
    /\ pc' = "grouped"
    /\ UNCHANGED <<messages, idx, groups, topics, windowVars, unusedByWindow>>

\* topics = self._extract_topics(time_groups): the candidates are sorted
\* and `return topics[:3]`
WindowExtract ==
    /\ pc = "grouped"
    /\ \E candidates \in {WindowCandidates(groups)} :
          \E o \in SortOrders(candidates) :
             topics' = Prefix([k \in DOMAIN candidates |-> candidates[o[k]]], 3)
    /\ pc' = "done"
    /\ UNCHANGED <<messages, idx, groups, windowVars, unusedByWindow>>

NextWindow == WindowEmpty \/ WindowPreprocess \/ WindowGroupEmpty
                \/ WindowGroupEnter \/ WindowGroupLoop \/ WindowGroupReturn
                \/ WindowExtract

SpecWindow == InitWindow /\ [][NextWindow]_vars

(***************************************************************************)
(* analyze_topics of wechatReport/generate_report.py.  The 'time' of a     *)
(* message is "2025-12-10T" and the clock time parse_messages found; a     *)
(* clock time such as 99:99:99 matches its pattern and makes a time that   *)
(* datetime.fromisoformat rejects (kind "bad").                            *)
(***************************************************************************)
MaxGenMsgs == 5

\* one iteration of `for msg in messages`; every exception of the try
\* block ends in `current_topic.append(msg)`
GenStep(s, msg) ==
    IF s.current_topic = <<>>
    THEN [s EXCEPT !.current_topic = <<msg>>]
    ELSE LET last == s.current_topic[Len(s.current_topic)] IN
         IF ~(Parseable(last.ts) /\ Parseable(msg.ts) /\ CanSubtract(msg.ts, last.ts))
         THEN [s EXCEPT !.current_topic = Append(@, msg)]
         ELSE IF msg.ts.t - last.ts.t <= 30
         THEN [s EXCEPT !.current_topic = Append(@, msg)]
         ELSE [s EXCEPT !.topics = IF Len(s.current_topic) >= 2
                                   THEN Append(@, s.current_topic) ELSE @,
                        !.current_topic = <<msg>>]

\* after the loop: `if len(current_topic) >= 2: topics.append(current_topic)`
GenFinish(s) ==
    IF Len(s.current_topic) >= 2 THEN Append(s.topics, s.current_topic)
                                 ELSE s.topics

\* set(msg['sender'] for msg in topic if msg['sender'])
GenParticipants(topic) == {topic[k].sender : k \in DOMAIN topic} \ {""}

\* round(len(topic) * 10 + len(participants) * 5, 2)
GenScore(topic) == Len(topic) * 10 + Cardinality(GenParticipants(topic)) * 5

\* the five most frequent words, equal counts in order of first occurrence
GenKeywords(topic) ==
    LET content_text == Join([k \in DOMAIN topic |-> topic[k].content], <<" ">>)
        keywords == SelectSeq(FindWords(Lower(content_text)),
                        LAMBDA w : w \notin (CommonStopWords \cup ChatStopWords)
                                   /\ Len(w) >= 2)
        words == Distinct(keywords)
    IN  Prefix(SortedByKeyDesc(words,
                   [k \in DOMAIN words |-> Frequency(keywords, words[k])]), 5)

\* the first three contents, cut to 60 characters, joined by ' | '
GenSummary(topic) ==
    LET first == Prefix(topic, 3)
    IN  Join([k \in DOMAIN first |->
                 IF Len(first[k].content) > 60
                 THEN Prefix(first[k].content, 60) \o Ellipsis
                 ELSE first[k].content], Separator)

\* `for i, topic in enumerate(topics[:3], 1)`: the dicts of analyzed_topics
AnalyzedTopics(identified) ==
    LET first == Prefix(identified, 3)
    IN  [k \in DOMAIN first |->
            [rank |-> k,
             score |-> GenScore(first[k]),
             message_count |-> Len(first[k]),
             participant_count |-> Cardinality(GenParticipants(first[k])),
             keywords |-> GenKeywords(first[k]),
             summary |-> GenSummary(first[k]),
             start_time |-> first[k][1].ts,
             end_time |-> first[k][Len(first[k])].ts,
             messages |-> first[k]]]

\* lists in the order of the chat log: every message a quarter of an hour
\* or three after the one before
GenInputs ==
    {[i \in DOMAIN f |->
        [id |-> i, ts |-> IsoTs(TimeAt([k \in DOMAIN f |-> f[k][1]], i), FALSE),
         sender |-> f[i][2],
         content |-> IF f[i][2] = "u1" THEN Hello ELSE Project]] :
        f \in SeqsUpTo({1, 3} \X {"u1", "u2"}, MaxGenMsgs)}

\* four topics of two messages, the last one with two senders
FourTopics ==
    [i \in 1..8 |->
        [id |-> i, ts |-> IsoTs(((i - 1) \div 2) * 3 * TickMinutes, FALSE),
         sender |-> IF i = 8 THEN "u2" ELSE "u1", content |-> Hello]]

\* a system message at 00:00:00 after the first message, a message with no
\* sender line and a message whose clock time is 99:99:99
OddTimes ==
    << [id |-> 1, ts |-> IsoTs(3 * TickMinutes, FALSE), sender |-> "u1",
        content |-> Hello],
       [id |-> 2, ts |-> IsoTs(0, FALSE), sender |-> SystemSender,
        content |-> Hello],
       [id |-> 3, ts |-> IsoTs(4 * TickMinutes, FALSE), sender |-> "",
        content |-> Project],
       [id |-> 4, ts |-> OtherTs("bad"), sender |-> "u2", content |-> Hello],
       [id |-> 5, ts |-> IsoTs(0, FALSE), sender |-> "u2", content |-> Hello] >>

InitGen ==
    /\ messages \in GenInputs \cup {FourTopics, OddTimes}
    /\ pc = "start"
    /\ idx = 0
    /\ sessions = <<>>
    /\ current_session = <<>>
    /\ last_time = NoTime
    /\ exc = "none"
    /\ topics = <<>>
    /\ ranked_topics = <<>>
    /\ target_topics = 0
    /\ top_topics = <<>>
    /\ interval_minutes = 0
    /\ sorted_messages = <<>>
    /\ groups = <<>>
    /\ current_group = <<>>
    /\ clock = 0
    /\ analyzer = "none"
    /\ chatlog_content = <<>>
    /\ min_messages_per_topic = 0
    /\ topic_scores = <<>>
    /\ call = 1
    /\ first_groups = <<>>
    /\ processed = <<>>
    /\ start_time = NoTime
    /\ current_topic = <<>>
    /\ analyzed_topics = <<>>
    /\ chats = <<>>
    /\ success_count = 0
    /\ skip_count = 0
    /\ output_dir = {}
    /\ results = <<>>

unusedByGen == <<last_time, exc, segVars, ranked_topics, target_topics,
                 top_topics, chatVars, reportVars, rerunVars, windowVars,
                 batchVars>>

\* `if not messages: return []`
GenEmpty ==
    /\ pc = "start"
    /\ messages = <<>>
    /\ pc' = "done"
    /\ UNCHANGED <<messages, idx, topics, genVars, unusedByGen>>

GenEnter ==
    /\ pc = "start"
    /\ messages # <<>>
    /\ pc' = "loop"
    /\ UNCHANGED <<messages, idx, topics, genVars, unusedByGen>>

GenLoop ==
    /\ pc = "loop"
    /\ idx < Len(messages)
    /\ LET s == GenStep([topics |-> topics, current_topic |-> current_topic],
                        messages[idx + 1])
       IN /\ topics' = s.topics
          /\ current_topic' = s.current_topic
    /\ idx' = idx + 1
    /\ UNCHANGED <<messages, pc, analyzed_topics, unusedByGen>>

\* the trailing append: the topics are identified
GenIdentify ==
    /\ pc = "loop"
    /\ idx = Len(messages)
    /\ topics' = GenFinish([topics |-> topics, current_topic |-> current_topic])
    /\ pc' = "identified"
    /\ UNCHANGED <<messages, idx, genVars, unusedByGen>>

\* the loop over topics[:3] and `return analyzed_topics`
GenAnalyze ==
    /\ pc = "identified"
    /\ analyzed_topics' = AnalyzedTopics(topics)
    /\ pc' = "done"
    /\ UNCHANGED <<messages, idx, topics, current_topic, unusedByGen>>

NextGen == GenEmpty \/ GenEnter \/ GenLoop \/ GenIdentify \/ GenAnalyze

SpecGen == InitGen /\ [][NextGen]_vars

(***************************************************************************)
(* BatchChatlogAnalyzer.run and _process_chat of batch_chatlog_analyzer.py.*)
(* The checklist and the chat-log service are the environment: a chat of   *)
(* the parsed checklist is a record [name, date, answer], answer being the *)
(* list of messages query_messages extracts from the reply of the service  *)
(* for that chat and date, <<>> when the service is away, replies with an  *)
(* error or holds no message.  A file of output_dir is a record            *)
(* [filename, topics, message_count, participant_count].                   *)
(***************************************************************************)
MaxChats == 3        \* longest parsed checklist

\* a chat name with a path separator names a file in a directory that does
\* not exist: output_path.write_text raises FileNotFoundError
ChatNames == {"dev", "a/b"}
HasSeparator(name) == name = "a/b"

ServiceAnswers ==
    {<<>>,
     <<[id |-> 1, ts |-> IsoTs(0, FALSE), sender |-> "u1", content |-> Hello]>>,
     <<[id |-> 1, ts |-> IsoTs(0, FALSE), sender |-> "u1", content |-> Hello],
       [id |-> 2, ts |-> IsoTs(4 * TickMinutes, FALSE), sender |-> "",
        content |-> Project]>>,
     <<[id |-> 1, ts |-> OtherTs("missing"), sender |-> "u1", content |-> Hello]>>,
     <<[id |-> 1, ts |-> OtherTs("int"), sender |-> "u1", content |-> Hello]>>}

ChatConfigs ==
    {[name |-> n, date |-> "2025-12-11", answer |-> a] :
        n \in ChatNames, a \in ServiceAnswers}

\* _normalize_messages: msg.get('timestamp') or ... or '' and
\* msg.get('sender') or ... or 'Unknown'
NormalizeMessages(msgs) ==
    [k \in DOMAIN msgs |->
        [msgs[k] EXCEPT !.ts = IF @.kind = "missing" THEN OtherTs("empty") ELSE @,
                        !.sender = IF @ = "" THEN "Unknown" ELSE @]]

\* query_messages: None (here <<>>) unless the service gave messages
QueryMessages(chat) ==
    IF chat.answer = <<>> THEN <<>> ELSE NormalizeMessages(chat.answer)

\* the loop of _group_by_session_windows up to its end or to the exception
\* that escapes it
RECURSIVE SegRun(_, _)
SegRun(s, msgs) ==
    IF msgs = <<>> \/ s.exc # "none" THEN s
    ELSE CHOOSE r \in {SegRun(next, Tail(msgs)) :
                          next \in {SegStep(s, Head(msgs))}} : TRUE

\* TopicAnalyzer(messages).analyze() on a list that is not empty: the
\* exception that escapes, or the returned top_topics
Analyze(msgs) ==
    CHOOSE a \in UNION {
        IF s.exc # "none" THEN {[exc |-> s.exc, top_topics |-> <<>>]}
        ELSE {[exc |-> "none",
               top_topics |-> Prefix(ranked, TargetTopics(Len(msgs)))] :
                  ranked \in {RankTopics(extracted) :
                                 extracted \in {ExtractTopics(segs) :
                                                   segs \in {SegFinish(s)}}}}
        : s \in {SegRun(SegInit, msgs)}} : TRUE

\* f"{chat_name}_{date.replace('-', '')}.html"
OutputFilename(chat) == <<chat.name, chat.date>>

\* _process_chat from "if not topics" on, a being what analyze() did
AfterAnalyze(chat, msgs, a) ==
    IF a.exc # "none" THEN [result |-> "raised", report |-> {}]
    ELSE IF a.top_topics = <<>> THEN [result |-> "False", report |-> {}]
    ELSE IF HasSeparator(chat.name) THEN [result |-> "raised", report |-> {}]
    ELSE [result |-> "True",
          report |-> {[filename |-> OutputFilename(chat),
                       topics |-> a.top_topics,
                       message_count |-> Len(msgs),
                       participant_count |-> Cardinality(Participants(msgs))]}]

\* _process_chat: result is "True" or "False" for the value returned and
\* "raised" when an exception leaves the method; report is the set of the
\* file it wrote, if any
ProcessChat(chat) ==
    CHOOSE r \in UNION {
        IF msgs = <<>> THEN {[result |-> "False", report |-> {}]}
        ELSE {AfterAnalyze(chat, msgs, a) : a \in {Analyze(msgs)}}
        : msgs \in {QueryMessages(chat)}} : TRUE

\* how _process_chat ends for each chat a checklist can name
Outcomes == [chat \in ChatConfigs |-> ProcessChat(chat)]

\* output_path.write_text(html): a file of the same name is replaced
WriteText(dir, report) ==
    {f \in dir : \A r \in report : f.filename # r.filename} \cup report

\* Variant of ContinueLoop: an exception ends the loop.
ContinueLoopStoppingOnError(result, index) ==
    IF result = "raised" THEN Len(chats) ELSE index + 1

\* `for chat in chats` with `except Exception ... continue`: the loop goes
\* on to the next chat however the call ended
ContinueLoop(result, index) == index + 1

InitBatch ==
    /\ pc = "start"
    /\ idx = 0
    /\ chats = <<>>
    /\ success_count = 0
    /\ skip_count = 0
    /\ output_dir = {}
    /\ results = <<>>
    /\ messages = <<>>
    /\ sessions = <<>>
    /\ current_session = <<>>
    /\ last_time = NoTime
    /\ exc = "none"
    /\ topics = <<>>
    /\ ranked_topics = <<>>
    /\ target_topics = 0
    /\ top_topics = <<>>
    /\ interval_minutes = 0
    /\ sorted_messages = <<>>
    /\ groups = <<>>
    /\ current_group = <<>>
    /\ clock = 0
    /\ analyzer = "none"
    /\ chatlog_content = <<>>
    /\ min_messages_per_topic = 0
    /\ topic_scores = <<>>
    /\ call = 1
    /\ first_groups = <<>>
    /\ processed = <<>>
    /\ start_time = NoTime
    /\ current_topic = <<>>
    /\ analyzed_topics = <<>>

unusedByBatch == <<messages, last_time, exc, segVars, topicVars, chatVars,
                   reportVars, rerunVars, windowVars, genVars>>

\* `if not self.parser.exists()`: the template is written and run returns
BatchMissing ==
    /\ pc = "start"
    /\ pc' = "done"
    /\ UNCHANGED <<idx, batchVars, unusedByBatch>>

\* chats = self.parser.parse(); `if not chats: return`
BatchNoChats ==
    /\ pc = "start"
    /\ chats' = <<>>
    /\ pc' = "done"
    /\ UNCHANGED <<idx, success_count, skip_count, output_dir, results,
                   unusedByBatch>>

\* chats = self.parser.parse(), output_dir.mkdir and the two counters
BatchParse ==
    /\ pc = "start"
    /\ chats' \in SeqsUpTo(ChatConfigs, MaxChats) \ {<<>>}
    /\ success_count' = 0
    /\ skip_count' = 0
    /\ pc' = "loop"
    /\ UNCHANGED <<idx, output_dir, results, unusedByBatch>>

\* one iteration of `for chat in chats`: the try block and its handler
BatchIterate ==
    /\ pc = "loop"
    /\ idx < Len(chats)
    /\ \E r \in {Outcomes[chats[idx + 1]]} :
          /\ success_count' = IF r.result = "True" THEN success_count + 1
                              ELSE success_count
          /\ skip_count' = IF r.result = "True" THEN skip_count
                           ELSE skip_count + 1
          /\ output_dir' = WriteText(output_dir, r.report)
          /\ results' = Append(results, [chat |-> idx + 1, result |-> r.result,
                                         wrote |-> r.report # {}])
          /\ idx' = ContinueLoop(r.result, idx)
    /\ UNCHANGED <<pc, chats, unusedByBatch>>

\* Phase 5: the summary is logged and run returns
BatchFinish ==
    /\ pc = "loop"
    /\ idx >= Len(chats)
    /\ pc' = "done"
    /\ UNCHANGED <<idx, batchVars, unusedByBatch>>

NextBatch == BatchMissing \/ BatchNoChats \/ BatchParse \/ BatchIterate
                \/ BatchFinish

SpecBatch == InitBatch /\ [][NextBatch]_vars

\* the loop is sequential code: a step that can be taken is taken
SpecBatchLive == SpecBatch /\ WF_vars(NextBatch)

(***************************************************************************)
(* Properties of _group_by_session_windows, checked under Spec.            *)
(***************************************************************************)
Returned == pc \in {"grouped", "extracted", "done"}
Grouped == Concat(sessions)
Occurrences(seq, m) == Cardinality({k \in DOMAIN seq : seq[k] = m})
Distance(a, b) == Max(a, b) - Min(a, b)

C2_GroupsAscending ==
    Returned =>
        /\ \A g \in DOMAIN sessions : \A k \in 1..(Len(sessions[g]) - 1) :
              sessions[g][k].ts.t <= sessions[g][k + 1].ts.t
        /\ \A g \in 1..(Len(sessions) - 1) :
              sessions[g][Len(sessions[g])].ts.t <= sessions[g + 1][1].ts.t

\* C3: two adjacent messages of one returned group are at most
\* TIME_WINDOW_MINUTES apart (the later timestamp minus the earlier), and
\* the first message of a group is more than TIME_WINDOW_MINUTES after the
\* last message of the group before it.
C3_GapInvariant ==
    Returned =>
        /\ \A g \in DOMAIN sessions : \A k \in 1..(Len(sessions[g]) - 1) :
              Distance(sessions[g][k].ts.t, sessions[g][k + 1].ts.t)
                  <= TIME_WINDOW_MINUTES
        /\ \A g \in 1..(Len(sessions) - 1) :
              sessions[g + 1][1].ts.t - sessions[g][Len(sessions[g])].ts.t
                  > TIME_WINDOW_MINUTES

\* C5: a message whose timestamp cannot be parsed (missing key, empty or
\* malformed string, non-string value) is left out of every group and no
\* exception escapes the segmentation because of it.
MixesAwareAndNaive ==
    \E m, n \in Range(messages) :
        Parseable(m.ts) /\ Parseable(n.ts) /\ m.ts.aware # n.ts.aware

C5_UnparseableSilentlyDropped ==
    /\ pc = "raised" => MixesAwareAndNaive
    /\ Returned => \A m \in Range(Grouped) : Parseable(m.ts)

(***************************************************************************)
(* Properties of TopicAnalyzer.analyze, checked under Spec.                *)
(***************************************************************************)
Finished == pc = "done"
ReturnedSessions == {top_topics[k].session : k \in DOMAIN top_topics}
LeftOut == {k \in DOMAIN topics : topics[k].session \notin ReturnedSessions}

C7_CountBound ==
    Finished =>
        LET N == Len(messages) IN
        /\ target_topics = Max(5, Min(20, N \div 50))
        /\ target_topics \in 5..20
        /\ \A n \in 0..N : Max(5, Min(20, n \div 50)) <= target_topics
        /\ N = 600 => target_topics = 12
        /\ Len(top_topics) <= target_topics
        /\ Len(top_topics) <= Len(sessions)

C7_Witness ==
    /\ Finished
    /\ Len(messages) = 600
    /\ Len(sessions) > 12
    /\ Len(top_topics) = 12

\* C8: a session in which every message is noise or empty yields no topic,
\* so an input made of such messages only returns no topic.
NoiseOrEmpty(msg) == IsNoise(msg.content) \/ Strip(msg.content) = <<>>
AllNoise(msgs) == \A k \in DOMAIN msgs : NoiseOrEmpty(msgs[k])

C8_AllNoiseSessionDropped ==
    Finished =>
        /\ \A k \in DOMAIN top_topics : ~AllNoise(sessions[top_topics[k].session])
        /\ AllNoise(messages) => top_topics = <<>>

\* C10: a noise message is counted in message_count, and every excerpt of
\* a summary is cut from a message of the session that is not noise.
MessageOf(id) == messages[id]

C10_NoiseCountedNotSummarised ==
    \A k \in DOMAIN topics :
        LET t == topics[k]
            session == sessions[t.session]
        IN  /\ t.message_count = Len(session)
            /\ \A i \in DOMAIN t.summary_from :
                  /\ MessageOf(t.summary_from[i]) \in Range(session)
                  /\ ~IsNoise(MessageOf(t.summary_from[i]).content)
            /\ t.summary_from # <<>> =>
                  t.summary = Join([i \in DOMAIN t.summary_from |->
                                      SummaryPart(Strip(MessageOf(t.summary_from[i]).content))],
                                   Separator)
            /\ t.summary_from = <<>> => t.summary = NoSummary

C10_Witness ==
    \E k \in DOMAIN topics :
        /\ \E m \in Range(sessions[topics[k].session]) : m.content = Smile
        /\ topics[k].message_count = 2
        /\ topics[k].summary_from # <<>>

(***************************************************************************)
(* Properties of ChatAnalyzer.group_messages_by_time, checked under        *)
(* SpecChat.                                                               *)
(***************************************************************************)
GroupOf(gs, m) == CHOOSE g \in DOMAIN gs : m \in Range(gs[g])

\* C4: the gap is measured message to message: a message is in the group of
\* the message just before it in time order if and only if it is at most
\* interval_minutes after that message.
C4_GapMessageToMessage ==
    pc = "done" =>
        \A k \in 1..(Len(sorted_messages) - 1) :
            LET m == sorted_messages[k]
                n == sorted_messages[k + 1]
            IN  (Parseable(m.ts) /\ Parseable(n.ts)) =>
                    ((GroupOf(groups, m) = GroupOf(groups, n))
                        <=> (n.ts.t - m.ts.t <= interval_minutes))

(***************************************************************************)
(* Properties of ChatlogAnalyzer, checked under SpecReport.                *)
(***************************************************************************)
TopicGroups == {topics[k].messages : k \in DOMAIN topics}

\* C9: when analyze_group_chat or analyze has returned, every topic has a
\* message_count of min_messages_per_topic at least and is made of one of
\* the time groups, no time group with fewer messages than that is the
\* group of a topic, and an input of a single message has formed one group
\* of that message and no topic.
C9_SmallGroupsYieldNoTopic ==
    pc = "done" =>
        /\ \A k \in DOMAIN topics :
              /\ topics[k].message_count >= min_messages_per_topic
              /\ topics[k].message_count = Len(topics[k].messages)
              /\ topics[k].messages \in Range(groups)
        /\ \A g \in DOMAIN groups :
              Len(groups[g]) < min_messages_per_topic
                  => groups[g] \notin TopicGroups
        /\ Len(messages) = 1 => groups = <<messages>> /\ topics = <<>>

\* a call has returned a topic and has left out a smaller group
C9_Witness ==
    /\ pc = "done"
    /\ topics # <<>>
    /\ \E g \in DOMAIN groups :
          /\ Len(groups[g]) < min_messages_per_topic
          /\ groups[g] \notin TopicGroups

(***************************************************************************)
(* Properties of the title, the keywords, the score and the summary of     *)
(* TopicAnalyzer (batch_chatlog_analyzer.py), checked under Spec.          *)
(***************************************************************************)
\* C11: the message a topic's title is extracted from is never a message
\* that _is_noise classifies as noise, whatever the session, sessions
\* without a message longer than 15 characters included.
C11_TitleNeverFromNoise ==
    \A k \in DOMAIN topics :
        topics[k].title_from # 0
            => ~IsNoise(MessageOf(topics[k].title_from).content)

\* the session a topic was made from, the occurrences of keyword candidates
\* in it and the candidates that occur twice or more
SessionOf(k) == sessions[topics[k].session]
CandidateOccurrences(k) == KeywordOccurrences(SessionOf(k))
Qualifying(occ) == {w \in Range(occ) : Frequency(occ, w) >= 2}

\* min(len / 4, 1.5) * min(freq / 3, 2.0) as an exact number, times 120
ExactKeywordScore(occ, w) == 10 * Min(Len(w), 6) * Min(Frequency(occ, w), 6)
ExactScores(occ, kw) == [i \in DOMAIN kw |-> ExactKeywordScore(occ, kw[i])]

\* C12: every topic has between 1 and 5 keywords; when a candidate of its
\* session occurs twice or more, every keyword is a candidate that occurs
\* twice or more and the keywords are in non-increasing keyword score;
\* when none does, the keywords are the fixed list of three.
C12_KeywordsQualifyAndDescend ==
    \A k \in DOMAIN topics :
      \A occ \in {CandidateOccurrences(k)} :
        \A qualifying \in {Qualifying(occ)} :
          \A score \in {ExactScores(occ, topics[k].keywords)} :
            LET kw == topics[k].keywords IN
            /\ 1 <= Len(kw) /\ Len(kw) <= 5
            /\ IF qualifying # {}
               THEN /\ \A i \in DOMAIN kw : kw[i] \in qualifying
                    /\ \A i, j \in DOMAIN kw : i < j => score[i] >= score[j]
               ELSE kw = FallbackKeywords /\ Len(kw) = 3

\* a topic whose keywords have unlike scores and whose session has a
\* candidate that occurs once, a topic with the fixed list, and a topic
\* with more than 5 qualifying candidates
C12_Witness ==
    /\ pc = "done"
    /\ \E k \in DOMAIN topics :
        \E occ \in {CandidateOccurrences(k)} :
          \E score \in {ExactScores(occ, topics[k].keywords)} :
            /\ \E i, j \in DOMAIN score : score[i] > score[j]
            /\ \E w \in Range(occ) : Frequency(occ, w) = 1
    /\ \E k \in DOMAIN topics :
          /\ Qualifying(CandidateOccurrences(k)) = {}
          /\ topics[k].keywords = FallbackKeywords
    /\ \E k \in DOMAIN topics :
          /\ Cardinality(Qualifying(CandidateOccurrences(k))) > 5
          /\ Len(topics[k].keywords) = 5

\* `word in existing or existing in word`
Contained(w, v) == IsSubstring(w, v) \/ IsSubstring(v, w)

\* C13: no keyword of a topic contains another one, and a qualifying
\* candidate that is left out while a keyword contains it or is contained
\* in it has such a keyword of a score at least its own.
C13_KeywordsDeduplicated ==
    \A k \in DOMAIN topics :
        LET kw == topics[k].keywords IN
        /\ \A i, j \in DOMAIN kw : i # j => ~IsSubstring(kw[i], kw[j])
        /\ \A occ \in {CandidateOccurrences(k)} :
             \A score \in {ExactScores(occ, kw)} :
               \A w \in Qualifying(occ) \ Range(kw) :
                 (\E i \in DOMAIN kw : Contained(w, kw[i]))
                     => \E i \in DOMAIN kw :
                           /\ Contained(w, kw[i])
                           /\ score[i] >= ExactKeywordScore(occ, w)

\* a topic that leaves out a qualifying candidate of a lower score than the
\* keyword that contains it ("项目" next to "项目管理")
C13_Witness ==
    /\ pc = "done"
    /\ \E k \in DOMAIN topics :
        \E occ \in {CandidateOccurrences(k)} :
          \E w \in Qualifying(occ) \ Range(topics[k].keywords) :
            \E i \in DOMAIN topics[k].keywords :
                /\ IsSubstring(w, topics[k].keywords[i])
                /\ ExactKeywordScore(occ, topics[k].keywords[i])
                       > ExactKeywordScore(occ, w)

\* C14: the score of a topic is a sum of capped terms, so it is never
\* negative and never above 10 (scores are kept as hundredths: 10 is 1000).
C14_ScoreWithinCap ==
    \A k \in DOMAIN topics :
        topics[k].score >= 0 /\ topics[k].score <= 10 * 100

\* C15: when a session has more than 3 substantial messages, the summary
\* is made of the first, the middle (n // 2) and the last of them, every
\* one whose excerpt is not empty, of at most one more message, and this
\* one is among the two longest.
C15_SummaryKeepsFirstMiddleLast ==
    \A k \in DOMAIN topics :
        LET substantial == Substantial(SessionOf(k))
            n == Len(substantial)
            three == {1, (n \div 2) + 1, n}
            from == topics[k].summary_from
        IN  n > 3 =>
                /\ \A i \in three :
                      SummaryPart(substantial[i].content) # <<>>
                          => \E j \in DOMAIN from : from[j] = substantial[i].id
                /\ Len(from) <= 4
                /\ \A j \in DOMAIN from :
                      \/ \E i \in three : from[j] = substantial[i].id
                      \/ \E i \in 1..n :
                            /\ from[j] = substantial[i].id
                            /\ Cardinality({m \in 1..n : substantial[m].length
                                                > substantial[i].length}) <= 1

\* C18: an empty message list gives no group and no topic and raises
\* nothing; a list of one message with a parseable timestamp gives exactly
\* one group, which holds exactly that message.
C18_EmptyAndSingleInput ==
    /\ messages = <<>> =>
          /\ pc # "raised" /\ exc = "none"
          /\ Returned => sessions = <<>>
          /\ pc \in {"extracted", "done"} => topics = <<>>
          /\ Finished => top_topics = <<>>
    /\ (Len(messages) = 1 /\ Parseable(messages[1].ts)) =>
          /\ pc # "raised" /\ exc = "none"
          /\ Returned => sessions = << <<messages[1]>> >>

\* analyze has returned for a list of one message with a parseable timestamp
C18_Witness ==
    /\ Finished
    /\ Len(messages) = 1 /\ Parseable(messages[1].ts)
    /\ Len(sessions) = 1 /\ Len(sessions[1]) = 1

\* the messages of a topic's session that are longer than 15 characters
\* and not noise, in the order of the session
TitleCandidates(k) ==
    SelectSeq(SessionOf(k), LAMBDA m : Len(Strip(m.content)) > 15
                                          /\ ~IsNoise(Strip(m.content)))

C29_TitleLengthBounded ==
    \A k \in DOMAIN topics :
        \A title \in {topics[k].title} :
            /\ 1 <= Len(title) /\ Len(title) <= 43
            /\ Len(title) > 40 => Suffix(title, Len(title) - 2) = Ellipsis

\* a topic with a title cut at a space before the 40th character of a
\* message of more than 43 characters
C29_Witness ==
    /\ pc = "done"
    /\ \E k \in DOMAIN topics :
          /\ Len(topics[k].title) = 38
          /\ Suffix(topics[k].title, 36) = Ellipsis
          /\ topics[k].title_from # 0
          /\ Len(MessageOf(topics[k].title_from).content) > 43

(***************************************************************************)
(* Properties of ChatAnalyzer (analyzer.py), checked under SpecChat.       *)
(***************************************************************************)
\* C17: group_messages_by_time called with an interval_minutes of 0 or
\* less does not return groups (it fails with a configuration error).
C17_NonPositiveIntervalRejected ==
    interval_minutes <= 0 => pc # "done"

\* C16: a second call of group_messages_by_time on the same list returns
\* the groups the first call returned, whatever the messages' time fields.
C16_SecondRunSameGroups ==
    (call = 2 /\ pc = "done") => groups = first_groups

(***************************************************************************)
(* Properties of TopicAnalyzer._group_by_time (topic_analyzer.py),         *)
(* checked under SpecWindow.                                               *)
(***************************************************************************)
\* the position in groups of the group that holds the k-th processed message
WindowGroupOf(k) ==
    CHOOSE g \in DOMAIN groups :
        \E m \in DOMAIN groups[g].messages : groups[g].messages[m] = processed[k]

\* C19: when _group_by_time has returned, two messages that follow one
\* another in time order and are at most time_window (30) minutes apart
\* are in the same group: a group starts only after a gap of more than 30.
C19_CloseMessagesShareGroup ==
    pc = "grouped" =>
        \A k \in 1..(Len(processed) - 1) :
            processed[k + 1].timestamp - processed[k].timestamp <= TIME_WINDOW
                => WindowGroupOf(k) = WindowGroupOf(k + 1)

(***************************************************************************)
(* Properties of analyze_topics (generate_report.py), checked under        *)
(* SpecGen.                                                                *)
(***************************************************************************)
\* the identified topics that are not among the returned ones
GenLeftOut ==
    {k \in DOMAIN topics :
        \A r \in DOMAIN analyzed_topics : analyzed_topics[r].messages # topics[k]}

\* C20: the topics analyze_topics returns are in ranking order, the score
\* of an earlier one is never below that of a later one, and no identified
\* topic that is left out has a score above that of a returned topic.
C20_ReturnedInRankingOrder ==
    (pc = "done" /\ messages # <<>>) =>
        /\ \A i, j \in DOMAIN analyzed_topics :
              i < j => analyzed_topics[i].score >= analyzed_topics[j].score
        /\ \A k \in GenLeftOut : \A r \in DOMAIN analyzed_topics :
              GenScore(topics[k]) <= analyzed_topics[r].score

(***************************************************************************)
(* Properties of TopicAnalyzer._preprocess_messages (topic_analyzer.py),   *)
(* checked under SpecWindow.                                               *)
(***************************************************************************)
\* the input messages with content and with a timestamp that is a string
\* of one of the four formats or a number
WithContentAndTime ==
    {i \in DOMAIN messages :
        messages[i].content # <<>> /\ messages[i].ts.kind \in {"text", "epoch"}}

\* C23: _preprocess_messages returns exactly the messages with content and
\* a timestamp that parses, each once, in ascending order of the timestamp
\* and, for equal timestamps, in the order of the input.
C23_PreprocessKeepsParseable ==
    pc \in {"preprocessed", "loop", "grouped"} =>
        /\ {processed[k].original : k \in DOMAIN processed} = WithContentAndTime
        /\ Len(processed) = Cardinality(WithContentAndTime)
        /\ \A j, k \in DOMAIN processed :
              j < k =>
                 \/ processed[j].timestamp < processed[k].timestamp
                 \/ /\ processed[j].timestamp = processed[k].timestamp
                    /\ processed[j].original < processed[k].original

\* the windows of _group_by_time that _extract_topics analyses
LargeWindows == {g \in DOMAIN groups : Len(groups[g].messages) >= 3}

\* the preprocessed message that carries the original message `id`
ProcessedOf(id) == processed[CHOOSE k \in DOMAIN processed : processed[k].original = id]

\* C30: when _group_by_time has returned, every message of the group keyed
\* window_time has window_time <= timestamp < window_time + 30 minutes,
\* every key is the first timestamp plus a whole number of windows, and
\* each preprocessed message is in exactly one group; the messages of each
\* topic of _analyze_window lie in its [start_time, end_time)
C30_WindowsPartitionMessages ==
    pc \in {"grouped", "done"} /\ processed # <<>> =>
        /\ \A g \in DOMAIN groups :
              /\ \A i \in DOMAIN groups[g].messages :
                    /\ groups[g].window_time <= groups[g].messages[i].timestamp
                    /\ groups[g].messages[i].timestamp
                          < groups[g].window_time + TIME_WINDOW
              /\ groups[g].window_time >= processed[1].timestamp
              /\ (groups[g].window_time - processed[1].timestamp) % TIME_WINDOW = 0
              /\ \A h \in DOMAIN groups :
                    h # g => groups[h].window_time # groups[g].window_time
        /\ \A k \in DOMAIN processed :
              Cardinality({gi \in {<<g, i>> : g \in DOMAIN groups, i \in DOMAIN processed} :
                              /\ gi[2] \in DOMAIN groups[gi[1]].messages
                              /\ groups[gi[1]].messages[gi[2]] = processed[k]}) = 1
        /\ \A t \in DOMAIN topics :
              \A i \in DOMAIN topics[t].messages :
                 /\ topics[t].start_time <= ProcessedOf(topics[t].messages[i]).timestamp
                 /\ ProcessedOf(topics[t].messages[i]).timestamp < topics[t].end_time

\* three windows or more, a message later in its window than the window's
\* start, and a topic
C30_Witness ==
    /\ pc = "done"
    /\ Len(groups) >= 3
    /\ topics # <<>>
    /\ \E g \in DOMAIN groups : \E i \in DOMAIN groups[g].messages :
          groups[g].messages[i].timestamp > groups[g].window_time
    /\ \E k \in DOMAIN processed :
          (processed[k].timestamp - processed[1].timestamp) % TIME_WINDOW
              >= TIME_WINDOW \div 2

\* the windows of three messages or more that no returned topic reports
LeftOutWindows ==
    {g \in LargeWindows :
        \A t \in DOMAIN topics : topics[t].start_time # groups[g].window_time}

\* C22: _extract_topics returns at most 3 topics, each made from a window
\* of at least 3 messages, in non-increasing order of score, and every
\* window of at least 3 messages that is left out scores no higher than
\* each returned topic
C22_TopThreeLargeWindows ==
    pc = "done" /\ messages # <<>> =>
        /\ Len(topics) <= 3
        /\ \A t \in DOMAIN topics :
              /\ topics[t].message_count >= 3
              /\ \E g \in LargeWindows :
                    /\ groups[g].window_time = topics[t].start_time
                    /\ topics[t].messages =
                          [i \in DOMAIN groups[g].messages |->
                              groups[g].messages[i].original]
              /\ \A u \in DOMAIN topics :
                    u # t => topics[u].start_time # topics[t].start_time
        /\ \A t \in 1..(Len(topics) - 1) : topics[t].score >= topics[t + 1].score
        /\ \A g \in LeftOutWindows :
              \A score \in {AnalyzeWindow(groups[g].window_time,
                                         groups[g].messages).score} :
                 \A t \in DOMAIN topics : score <= topics[t].score

\* three topics of unlike scores are returned, a window of three messages
\* is left out and a window of two messages is skipped
C22_Witness ==
    /\ pc = "done"
    /\ Len(topics) = 3
    /\ topics[1].score > topics[3].score
    /\ LeftOutWindows # {}
    /\ \E g \in DOMAIN groups : Len(groups[g].messages) < 3

\* C24: for every non-empty list of messages _calculate_topic_score returns
\* a value from 0 to 10, and its addends stay within 3, 2, 2, 2 and 1
\* (scores and addends are kept times 500)
C24_ScoreAndTermsCapped ==
    pc = "done" =>
        \A g \in DOMAIN groups :
           \A topic \in {AnalyzeWindow(groups[g].window_time, groups[g].messages)} :
              /\ topic.score >= 0 /\ topic.score <= 10 * 500
              /\ topic.terms[1] >= 0 /\ topic.terms[1] <= 3 * 500
              /\ topic.terms[2] >= 0 /\ topic.terms[2] <= 2 * 500
              /\ topic.terms[3] >= 0 /\ topic.terms[3] <= 2 * 500
              /\ topic.terms[4] >= 0 /\ topic.terms[4] <= 2 * 500
              /\ topic.terms[5] >= 0 /\ topic.terms[5] <= 1 * 500

\* a topic whose five addends all stand at their caps, and so scores 10
C24_Witness ==
    /\ pc = "done"
    /\ \E t \in DOMAIN topics :
          /\ topics[t].message_count > 30
          /\ topics[t].participant_count >= 10
          /\ topics[t].terms = <<1500, 1000, 1000, 1000, 500>>
          /\ topics[t].score = 5000

\* C25: in calculate_topic_value ten messages are the full score of the
\* message count, so that addend, (msg_count / 10) * 40, is at most 40 and
\* the score of a group is at most 100
C25_MessageCountCapped ==
    pc \in {"grouped", "scored", "done"} =>
        \A g \in DOMAIN groups :
           \A value \in {CalculateTopicValue(analyzer, groups[g])} :
              /\ 4 * Len(groups[g]) <= 40
              /\ value.num <= 100 * value.den

\* the position of the latest message before position k of sorted_messages
\* whose timestamp fromisoformat accepts, 0 when there is none
LatestParseableBefore(k) ==
    LET before == {j \in 1..(k - 1) : Parseable(sorted_messages[j].ts)} IN
    IF before = {} THEN 0 ELSE CHOOSE j \in before : \A i \in before : i <= j

\* C27: in group_messages_by_time a message whose timestamp is more than
\* time_window minutes after the latest parseable timestamp before it in
\* the sorted list starts a new group, whatever unparseable timestamps
\* stand between the two
C27_GapStartsGroup ==
    pc \in {"grouped", "scored", "done"} /\ sorted_messages # <<>> =>
        \A k \in DOMAIN sorted_messages :
           \A j \in {LatestParseableBefore(k)} :
              /\ j > 0
              /\ Parseable(sorted_messages[k].ts)
              /\ CanSubtract(sorted_messages[k].ts, sorted_messages[j].ts)
              /\ sorted_messages[k].ts.t - sorted_messages[j].ts.t > time_window
              => \E g \in DOMAIN groups : groups[g][1] = sorted_messages[k]

\* C21: run calls _process_chat for every chat of the parsed checklist once
\* and in checklist order; a call that fails or raises never keeps the
\* later chats from being processed; and when run finishes,
\* success_count + skip_count is the number of chats
C21_LogAndContinue ==
    /\ [](/\ Len(results) <= Len(chats)
          /\ \A k \in DOMAIN results : results[k].chat = k)
    /\ [](pc = "done" => /\ Len(results) = Len(chats)
                         /\ success_count + skip_count = Len(chats))
    /\ (\E k \in DOMAIN results : results[k].result # "True")
          ~> (pc = "done" /\ Len(results) = Len(chats))
    /\ <>(pc = "done")

\* run has finished a checklist of three chats or more: the first call
\* raised, the second returned False, the third wrote a report
C21_Witness ==
    /\ pc = "done"
    /\ Len(chats) >= 3
    /\ results[1].result = "raised"
    /\ results[2].result = "False"
    /\ results[3].result = "True"
    /\ success_count >= 1
    /\ skip_count >= 2

\* C26: _process_chat writes a report and returns True exactly when the
\* query gave a list of messages that is not empty and the analysis gave
\* one topic at least; in every other case it returns False and writes no
\* file
C26_ReportIffMessagesAndTopics ==
    \A k \in DOMAIN results :
       \A msgs \in {QueryMessages(chats[k])} :
          \A a \in {Analyze(msgs)} :
             IF msgs # <<>> /\ a.exc = "none" /\ a.top_topics # <<>>
             THEN results[k].result = "True" /\ results[k].wrote
             ELSE results[k].result = "False" /\ ~results[k].wrote
====
